---- MODULE Spec2Model ----
(***************************************************************************)
(* A model of the AV1 OBU demultiplexer of dav1d (src/obu.c):              *)
(* dav1d_parse_obus() and the state of the Dav1dContext it works on.       *)
(*                                                                         *)
(* The context is one record variable c whose fields carry the names of    *)
(* the Dav1dContext members.  One call of dav1d_parse_obus() is one        *)
(* action, ParseObus(in); with several frame workers (n_fc > 1) a call     *)
(* that has to wait for a worker is suspended at pthread_cond_wait() and   *)
(* completed by Resume.                                                    *)
(*                                                                         *)
(* The OBU envelope (header byte, extension byte, leb128 length) is        *)
(* decoded from bytes.  The payload of an OBU is given by what its bits    *)
(* decode to (the descriptor parse_seq_hdr / parse_frame_hdr produce, or   *)
(* their failure).                                                         *)
(***************************************************************************)
EXTENDS Integers, Sequences, FiniteSets, TLC

VARIABLES
    c,      \* the Dav1dContext
    ret,    \* what the last dav1d_parse_obus call returned and did
    call,   \* the locals of a call suspended in pthread_cond_wait, or NoCall
    hist,   \* history: pictures attached to the output ring and published
    feed,   \* the caller's buffer: the bytes it has still to hand in
    scan,   \* the locals of dav1d_parse_sequence_header, or NoScan
    parse   \* a header parser at work: what it reads and what it has
            \* written, or NoParse

vars == <<c, ret, call, hist, feed, scan, parse>>

----------------------------------------------------------------------------
(* Bounds of the model *)

\* largest input buffer handed to dav1d_parse_obus, in bytes
MaxSz == 4
\* largest number of pictures attached to the frame-thread output ring
MaxAttach == 5
\* largest buffer handed to dav1d_parse_sequence_header, in bytes
MaxScan == 5
MaxT35 == 2

----------------------------------------------------------------------------
(* Program constants *)

NumRefs == 8
DAV1D_OBU_SEQ_HDR == 1
DAV1D_OBU_TD == 2
DAV1D_OBU_FRAME_HDR == 3
DAV1D_OBU_TILE_GRP == 4
DAV1D_OBU_METADATA == 5
DAV1D_OBU_FRAME == 6
DAV1D_OBU_REDUNDANT_FRAME_HDR == 7
DAV1D_OBU_PADDING == 15

OBU_META_HDR_CLL == 1
OBU_META_HDR_MDCV == 2
OBU_META_ITUT_T35 == 4

\* enum Dav1dDecodeFrameType
DAV1D_DECODEFRAMETYPE_ALL == 0
DAV1D_DECODEFRAMETYPE_REFERENCE == 1
DAV1D_DECODEFRAMETYPE_INTRA == 2
DAV1D_DECODEFRAMETYPE_KEY == 3

\* errno values; DAV1D_ERR(e) is -e
ENOENT == 2
EINVAL == 22
ERANGE == 34
DAV1D_ERR(e) == 0 - e

Slots == 0 .. (NumRefs - 1)

----------------------------------------------------------------------------
(* Small arithmetic helpers *)

RECURSIVE Pow2(_)
Pow2(n) == IF n = 0 THEN 1 ELSE 2 * Pow2(n - 1)

\* (x >> k) & 1
Bit(x, k) == (x \div Pow2(k)) % 2

\* ulog2(): index of the highest set bit of x > 0
RECURSIVE ulog2(_)
ulog2(x) == IF x <= 1 THEN 0 ELSE 1 + ulog2(x \div 2)

----------------------------------------------------------------------------
(* Descriptors *)

\* a NULL pointer
NULL == [null |-> TRUE]

\* Dav1dSequenceHeader: the fields the demultiplexer reads, and
\* operating_parameter_info, the last member of the struct.
SeqHdr(w, ops, opi) ==
    [ max_width |-> w, max_height |-> w,
      num_operating_points |-> Len(ops),
      operating_points |-> ops,
      operating_parameter_info |-> opi ]

\* Two sequence headers that differ only in operating_parameter_info, and
\* one that differs before it (0x101 and 0x303 select layers 0 and 0..1).
SeqA  == SeqHdr(64, << [idc |-> 0] >>, << [decoder_buffer_delay |-> 0] >>)
SeqA2 == SeqHdr(64, << [idc |-> 0] >>, << [decoder_buffer_delay |-> 1] >>)
SeqB  == SeqHdr(128, << [idc |-> 257], [idc |-> 771] >>,
                << [decoder_buffer_delay |-> 0], [decoder_buffer_delay |-> 0] >>)
SeqHdrs == {SeqA, SeqA2, SeqB}

\* a sequence header whose only operating point is 0x202: temporal layer 1
\* and spatial layer 1, without the layers 0
SeqC  == SeqHdr(64, << [idc |-> 514] >>, << [decoder_buffer_delay |-> 0] >>)

\* Dav1dFrameHeader after memset(0): every field zero, frame_type 0 = KEY
ZeroFrameHdr ==
    [ show_existing_frame |-> 0, existing_frame_idx |-> 0,
      frame_type |-> "KEY", show_frame |-> 0, showable_frame |-> 0,
      refresh_frame_flags |-> 0,
      tiling |-> [cols |-> 0, rows |-> 0, log2_cols |-> 0, log2_rows |-> 0],
      width1 |-> 0, height |-> 0,
      temporal_id |-> 0, spatial_id |-> 0 ]

FrameHdr(type, show, showable, refresh, cols, log2_cols, w, h) ==
    [ ZeroFrameHdr EXCEPT
      !.frame_type = type, !.show_frame = show, !.showable_frame = showable,
      !.refresh_frame_flags = refresh,
      !.tiling = [cols |-> cols, rows |-> 1, log2_cols |-> log2_cols, log2_rows |-> 0],
      !.width1 = w, !.height = h ]

ShowExisting(idx) ==
    [ ZeroFrameHdr EXCEPT !.show_existing_frame = 1, !.existing_frame_idx = idx ]

\* the frame headers the payloads of the model decode to
HdrKey   == FrameHdr("KEY",   0, 1, 255, 1, 0, 64, 64)
HdrInter == FrameHdr("INTER", 1, 1,   1, 2, 1, 64, 64)
HdrIntra == FrameHdr("INTRA", 1, 1,   2, 1, 0, 64, 64)
HdrSwitch == FrameHdr("SWITCH", 1, 1, 255, 1, 0, 64, 64)
\* three superblocks wide and uniform tiles with log2_cols 2: tile_w = 1,
\* 3 columns of tiles, numbered with 2 bits
Hdr3     == FrameHdr("INTER", 1, 1,   2, 3, 2, 192, 64)
HdrBig   == FrameHdr("KEY",   1, 0, 255, 1, 0, 256, 64)

\* an empty Dav1dPicture / Dav1dThreadPicture
ZeroPicture == [data |-> 0, frame_hdr |-> NULL, seq_hdr |-> NULL]
ZeroThreadPicture == [p |-> ZeroPicture, visible |-> 0, showable |-> 0]
\* A Dav1dRef pointer of a reference slot is told from the pointer of the
\* same name in the context: Here is the buffer the context points to,
\* Elsewhere is any other buffer.
Here == [buf |-> "here"]
Elsewhere == [buf |-> "elsewhere"]

\* c->refs[i]: the picture with its header references
\* (p.p.frame_hdr_ref, p.p.seq_hdr_ref), the segmentation map and the
\* motion vectors
ZeroRef == [ p |-> ZeroThreadPicture, segmap |-> 0, refmvs |-> 0,
            frame_hdr_ref |-> NULL, seq_hdr_ref |-> NULL ]

\* The context's pointer leaves its buffer (fh: c->frame_hdr_ref, sh:
\* c->seq_hdr_ref), for NULL or for a buffer just created: the slots that
\* hold the buffer it leaves hold another buffer than the context now.
Retired(refs, fh, sh) ==
    [i \in DOMAIN refs |->
        [refs[i] EXCEPT
            !.frame_hdr_ref = IF fh /\ @ = Here THEN Elsewhere ELSE @,
            !.seq_hdr_ref = IF sh /\ @ = Here THEN Elsewhere ELSE @]]

\* Dav1dDataProps of nothing
ZeroProps == 0

----------------------------------------------------------------------------
(* The bit reader, on the bytes of the OBU envelope.  gb.ptr and gb.ptr_end *)
(* are offsets from gb.ptr_start = in.data.                                 *)

dav1d_init_get_bits(in) == [ptr |-> 0, ptr_end |-> in.sz, error |-> FALSE]

\* dav1d_get_bits(gb, 8) on a byte boundary: the next byte, or 0 and the
\* sticky error when the read passes ptr_end
GetByte(in, gb) ==
    IF gb.ptr < gb.ptr_end
    THEN [ v  |-> IF gb.ptr + 1 <= Len(in.data) THEN in.data[gb.ptr + 1] ELSE 0,
           gb |-> [gb EXCEPT !.ptr = @ + 1] ]
    ELSE [ v |-> 0, gb |-> [gb EXCEPT !.error = TRUE] ]

\* dav1d_get_uleb128(): 7 bits per byte, least significant group first, at
\* most 8 bytes; a ninth group is an error and the value read is then 0
RECURSIVE Uleb128(_, _, _, _)
Uleb128(in, gb, val, i) ==
    LET r    == GetByte(in, gb)
        more == r.v \div 128
        v    == val + (r.v % 128) * Pow2(i)
    IN  IF more = 1 /\ i + 7 < 56
        THEN Uleb128(in, r.gb, v, i + 7)
        ELSE IF more = 1
             THEN [v |-> 0, gb |-> [r.gb EXCEPT !.error = TRUE]]
             ELSE [v |-> v, gb |-> r.gb]

dav1d_get_uleb128(in, gb) == Uleb128(in, gb, 0, 0)

\* check_trailing_bits(): tb.one is the trailing_one_bit, tb.clean tells that
\* only zero bits follow it up to the end of the OBU
check_trailing_bits(gb_error, tb, strict_std_compliance) ==
    IF gb_error THEN FALSE
    ELSE IF ~strict_std_compliance THEN TRUE
    ELSE tb.one /\ tb.clean

----------------------------------------------------------------------------
(* The OBU envelope: dav1d_parse_obus up to the dispatch on the type *)

\* a faulty variant: the length compared with the size of the whole buffer
LenExceedsBuffer(len, gb) == len > gb.ptr_end

\* len > (size_t)(gb.ptr_end - gb.ptr)
LenExceeds(len, gb) == len > gb.ptr_end - gb.ptr

\* the header once its bytes are read: hv is the header byte, ev the
\* extension byte (0 without extension), l the length read and the reader
\* after it
ObuEnvelope(hv, ev, l, strict_std_compliance) ==
    LET has_length_field == (hv \div 2) % 2
    IN  [ type |-> (hv \div 8) % 16,
          has_extension |-> (hv \div 4) % 2,
          has_length_field |-> has_length_field,
          temporal_id |-> ev \div 32,
          spatial_id |-> (ev \div 8) % 4,
          forbidden |-> strict_std_compliance /\ hv \div 128 = 1,
          too_long |-> has_length_field = 1 /\ LenExceeds(l.v, l.gb),
          gb |-> IF has_length_field = 1 /\ ~LenExceeds(l.v, l.gb)
                 THEN [l.gb EXCEPT !.ptr_end = l.gb.ptr + l.v]
                 ELSE l.gb ]

\* if (has_length_field) len = dav1d_get_uleb128(&gb); e is the reader
\* result after the extension byte
ObuLength(in, hv, e, strict_std_compliance) ==
    ObuEnvelope(hv, e.v,
                IF (hv \div 2) % 2 = 1 THEN dav1d_get_uleb128(in, e.gb)
                                      ELSE [v |-> 0, gb |-> e.gb],
                strict_std_compliance)

\* if (has_extension) temporal_id, spatial_id; h is the reader result after
\* the header byte
ObuExtension(in, h, strict_std_compliance) ==
    ObuLength(in, h.v,
              IF (h.v \div 4) % 2 = 1 THEN GetByte(in, h.gb)
                                      ELSE [v |-> 0, gb |-> h.gb],
              strict_std_compliance)

ObuHeader(in, strict_std_compliance) ==
    ObuExtension(in, GetByte(in, dav1d_init_get_bits(in)), strict_std_compliance)

\* a faulty variant: the size of the payload alone
ObuSizePayload(gb) == gb.ptr_end - gb.ptr

\* gb.ptr_end - gb.ptr_start: the value every successful return hands back
ObuSize(gb) == gb.ptr_end

\* a faulty variant: the OBU is dropped only if it is in neither layer
LayerDroppedBoth(type, has_extension, temporal_id, spatial_id, operating_point_idc) ==
    /\ type # DAV1D_OBU_SEQ_HDR
    /\ type # DAV1D_OBU_TD
    /\ has_extension = 1
    /\ operating_point_idc # 0
    /\ Bit(operating_point_idc, temporal_id) = 0
    /\ Bit(operating_point_idc, spatial_id + 8) = 0

\* the temporal/spatial layer filter
LayerDropped(type, has_extension, temporal_id, spatial_id, operating_point_idc) ==
    /\ type # DAV1D_OBU_SEQ_HDR
    /\ type # DAV1D_OBU_TD
    /\ has_extension = 1
    /\ operating_point_idc # 0
    /\ LET in_temporal_layer == Bit(operating_point_idc, temporal_id)
           in_spatial_layer  == Bit(operating_point_idc, spatial_id + 8)
       IN  in_temporal_layer = 0 \/ in_spatial_layer = 0

----------------------------------------------------------------------------
(* case DAV1D_OBU_SEQ_HDR, after parse_seq_hdr has succeeded *)

\* a faulty variant: the whole descriptors compared
SeqHdrDiffersAnywhere(a, b) == a # b

\* a faulty variant: the descriptors compared by address, and each parse
\* allocates its own
SeqHdrNeverSame(a, b) == TRUE

\* memcmp(seq_hdr, c->seq_hdr, offsetof(Dav1dSequenceHeader, operating_parameter_info))
SeqHdrDiffers(a, b) ==
    [a EXCEPT !.operating_parameter_info = << >>] #
    [b EXCEPT !.operating_parameter_info = << >>]

\* dav1d_thread_picture_unref(), dav1d_ref_dec(), dav1d_cdf_thread_unref() on
\* every slot
FlushRefs(cc) ==
    [cc EXCEPT !.refs = [i \in Slots |-> ZeroRef],
              !.cdf  = [i \in Slots |-> 0]]

\* seq_hdr is what parse_seq_hdr has written into the buffer of the new
\* reference ref, which becomes c->seq_hdr_ref
SeqHdrObu(cc, seq_hdr) ==
    LET op_idx == IF cc.operating_point < seq_hdr.num_operating_points
                  THEN cc.operating_point ELSE 0
        idc == seq_hdr.operating_points[op_idx + 1].idc
        spatial_mask == idc \div 256
        c1 == [cc EXCEPT !.operating_point_idc = idc,
                        !.max_spatial_id =
                            IF spatial_mask # 0 THEN ulog2(spatial_mask) ELSE 0]
        c2 == IF cc.seq_hdr = NULL
              THEN [c1 EXCEPT !.frame_hdr = NULL,
                              !.frame_flags = @ \cup {"NEW_SEQUENCE"}]
              ELSE IF SeqHdrDiffers(seq_hdr, cc.seq_hdr)
              THEN [FlushRefs(c1) EXCEPT
                        !.frame_hdr = NULL,
                        !.mastering_display = NULL,
                        !.content_light = NULL,
                        !.frame_flags = @ \cup {"NEW_SEQUENCE"}]
              ELSE IF seq_hdr.operating_parameter_info #
                      cc.seq_hdr.operating_parameter_info
              THEN [c1 EXCEPT !.frame_flags = @ \cup {"NEW_OP_PARAMS_INFO"}]
              ELSE c1
    IN  [c2 EXCEPT !.seq_hdr = seq_hdr,
                   !.seq_hdr_ref = Here,
                   !.refs = Retired(@, FALSE, TRUE)]

\* the flags the SEQ_HDR case raises in this call
SeqHdrEvents(cc, seq_hdr) ==
    IF cc.seq_hdr = NULL \/ SeqHdrDiffers(seq_hdr, cc.seq_hdr)
    THEN {"NEW_SEQUENCE"}
    ELSE IF seq_hdr.operating_parameter_info # cc.seq_hdr.operating_parameter_info
    THEN {"NEW_OP_PARAMS_INFO"}
    ELSE {}

----------------------------------------------------------------------------
(* case DAV1D_OBU_TILE_GRP (and the tile group that ends an OBU_FRAME) *)

\* parse_tile_hdr(): tg.have_tile_pos, tg.start, tg.end are the next bits
parse_tile_hdr(frame_hdr, tg) ==
    LET n_tiles == frame_hdr.tiling.cols * frame_hdr.tiling.rows
        have_tile_pos == IF n_tiles > 1 THEN tg.have_tile_pos ELSE 0
        n_bits == frame_hdr.tiling.log2_cols + frame_hdr.tiling.log2_rows
    IN  IF have_tile_pos = 1
        THEN [start |-> tg.start % Pow2(n_bits), end |-> tg.end % Pow2(n_bits)]
        ELSE [start |-> 0, end |-> n_tiles - 1]

\* a faulty variant: the start of the group is not compared with the tiles
\* gathered
TileGroupBadEnds(t, n_tiles) == t.start > t.end

\* "ensure tile groups are in order and sane": the group is refused
TileGroupBad(t, n_tiles) == t.start > t.end \/ t.start # n_tiles

\* result: the context and where the code goes: "break" or "error"
TileGrpObu(cc, tg) ==
    IF cc.frame_hdr = NULL THEN [c |-> cc, goto |-> "error", ev |-> {}]
    ELSE
    LET t == parse_tile_hdr(cc.frame_hdr, tg)
    IN  IF tg.overrun THEN [c |-> cc, goto |-> "error", ev |-> {}]
        ELSE IF TileGroupBad(t, cc.n_tiles)
        THEN [ c |-> [cc EXCEPT !.tile = << >>, !.n_tiles = 0],
               goto |-> "error", ev |-> {} ]
        ELSE [ c |-> [cc EXCEPT !.tile = Append(@, t),
                               !.n_tiles = @ + 1 + t.end - t.start],
               goto |-> "break", ev |-> {} ]

----------------------------------------------------------------------------
(* case DAV1D_OBU_REDUNDANT_FRAME_HDR / DAV1D_OBU_FRAME / DAV1D_OBU_FRAME_HDR *)

\* a faulty variant: the frame header parsed without a sequence header
SeqHdrNotChecked(cc) == FALSE

\* if (!c->seq_hdr) goto error;
SeqHdrMissing(cc) == cc.seq_hdr = NULL

\* a faulty variant: the width alone compared with the limit
ExceedsLimitWidth(hdr, frame_size_limit) ==
    frame_size_limit # 0 /\ hdr.width1 > frame_size_limit

\* c->frame_size_limit && (int64_t)width[1] * height > c->frame_size_limit
ExceedsLimit(hdr, frame_size_limit) ==
    frame_size_limit # 0 /\ hdr.width1 * hdr.height > frame_size_limit

\* if (!c->frame_hdr_ref) c->frame_hdr_ref = dav1d_ref_create_using_pool():
\* the buffer the frame header is written into, created when the context
\* has none
FrameHdrRef(cc) ==
    IF cc.frame_hdr_ref = NULL
    THEN [cc EXCEPT !.frame_hdr_ref = Here, !.refs = Retired(@, TRUE, FALSE)]
    ELSE cc

\* a faulty variant: a redundant frame header is parsed like any other
RedundantReparsed(type, frame_hdr) == FALSE

\* case DAV1D_OBU_REDUNDANT_FRAME_HDR: if (c->frame_hdr) break;
RedundantIgnored(type, frame_hdr) ==
    type = DAV1D_OBU_REDUNDANT_FRAME_HDR /\ frame_hdr # NULL

\* a faulty variant: the tile groups recorded for the frame before stay
FrameHdrObuKeepsTiles(cc, type, h, pl) ==
    IF RedundantIgnored(type, cc.frame_hdr)
    THEN [c |-> cc, goto |-> "break", ev |-> {}]
    ELSE IF SeqHdrMissing(cc)
    THEN [c |-> cc, goto |-> "error", ev |-> {"frame_hdr"}]
    ELSE IF pl.fh = NULL
    THEN [c |-> [FrameHdrRef(cc) EXCEPT !.frame_hdr = NULL], goto |-> "error",
          ev |-> {"frame_hdr"}]
    ELSE
    LET hdr == [pl.fh EXCEPT !.temporal_id = h.temporal_id,
                             !.spatial_id = h.spatial_id]
        c1  == [FrameHdrRef(cc) EXCEPT !.frame_hdr = hdr]
    IN  IF type # DAV1D_OBU_FRAME /\
           ~check_trailing_bits(pl.fh_overrun, pl.tb, cc.strict_std_compliance)
        THEN [c |-> [c1 EXCEPT !.frame_hdr = NULL], goto |-> "error",
              ev |-> {"frame_hdr"}]
        ELSE IF ExceedsLimit(hdr, cc.frame_size_limit)
        THEN [c |-> [c1 EXCEPT !.frame_hdr = NULL], goto |-> "erange",
              ev |-> {"frame_hdr"}]
        ELSE IF type # DAV1D_OBU_FRAME
        THEN [c |-> c1, goto |-> "break", ev |-> {"frame_hdr"}]
        ELSE IF hdr.show_existing_frame = 1
        THEN [c |-> [c1 EXCEPT !.frame_hdr = NULL], goto |-> "error",
              ev |-> {"frame_hdr"}]
        ELSE LET r == TileGrpObu(c1, [pl.tg EXCEPT !.overrun = @ \/ pl.fh_overrun])
             IN  [r EXCEPT !.ev = @ \cup {"frame_hdr"}]

\* pl.fh is the header parse_frame_hdr fills in (NULL: it returns < 0),
\* pl.fh_overrun tells that it read past the end of the OBU, pl.tb are the
\* trailing bits of a frame header OBU, pl.tg the tile group bits of OBU_FRAME
FrameHdrObu(cc, type, h, pl) ==
    IF RedundantIgnored(type, cc.frame_hdr)
    THEN [c |-> cc, goto |-> "break", ev |-> {}]
    ELSE IF SeqHdrMissing(cc)
    THEN [c |-> cc, goto |-> "error", ev |-> {"frame_hdr"}]
    ELSE IF pl.fh = NULL
    THEN [c |-> [FrameHdrRef(cc) EXCEPT !.frame_hdr = NULL], goto |-> "error",
          ev |-> {"frame_hdr"}]
    ELSE
    LET hdr == [pl.fh EXCEPT !.temporal_id = h.temporal_id,
                             !.spatial_id = h.spatial_id]
        c1  == [FrameHdrRef(cc) EXCEPT
                   !.frame_hdr = hdr, !.tile = << >>, !.n_tiles = 0]
    IN  IF type # DAV1D_OBU_FRAME /\
           ~check_trailing_bits(pl.fh_overrun, pl.tb, cc.strict_std_compliance)
        THEN [c |-> [c1 EXCEPT !.frame_hdr = NULL], goto |-> "error",
              ev |-> {"frame_hdr"}]
        ELSE IF ExceedsLimit(hdr, cc.frame_size_limit)
        THEN [c |-> [c1 EXCEPT !.frame_hdr = NULL], goto |-> "erange",
              ev |-> {"frame_hdr"}]
        ELSE IF type # DAV1D_OBU_FRAME
        THEN [c |-> c1, goto |-> "break", ev |-> {"frame_hdr"}]
        ELSE IF hdr.show_existing_frame = 1
        THEN [c |-> [c1 EXCEPT !.frame_hdr = NULL], goto |-> "error",
              ev |-> {"frame_hdr"}]
        ELSE LET r == TileGrpObu(c1, [pl.tg EXCEPT !.overrun = @ \/ pl.fh_overrun])
             IN  [r EXCEPT !.ev = @ \cup {"frame_hdr"}]

----------------------------------------------------------------------------
(* case DAV1D_OBU_METADATA *)

RECURSIVE StripZeros(_, _)
StripZeros(B, n) == IF n > 0 /\ B[n] = 0 THEN StripZeros(B, n - 1) ELSE n

\* a faulty variant: the trailing zero bytes are taken for payload
ItutT35Unstripped(cc, B) ==
    LET size0 == Len(B) - 1
        country_code == IF Len(B) >= 1 THEN B[1] ELSE 0
        has_ext == country_code = 255
        country_code_extension_byte ==
            IF has_ext /\ Len(B) >= 2 THEN B[2] ELSE 0
        k == IF has_ext THEN 2 ELSE 1
        payload_size == size0 - k
    IN  IF payload_size <= 0 \/ B[k + payload_size + 1] # 128
        THEN cc
        ELSE [cc EXCEPT !.itut_t35 = Append(@,
                 [ country_code |-> country_code,
                   country_code_extension_byte |-> country_code_extension_byte,
                   payload_size |-> payload_size,
                   payload |-> SubSeq(B, k + 1, k + payload_size) ])]

\* case OBU_META_ITUT_T35: B are the bytes of the OBU after the metadata type
ItutT35(cc, B) ==
    LET size0 == StripZeros(B, Len(B)) - 1
        country_code == IF Len(B) >= 1 THEN B[1] ELSE 0
        has_ext == country_code = 255
        country_code_extension_byte ==
            IF has_ext /\ Len(B) >= 2 THEN B[2] ELSE 0
        k == IF has_ext THEN 2 ELSE 1
        payload_size == size0 - k
    IN  IF payload_size <= 0 \/ B[k + payload_size + 1] # 128
        THEN cc
        ELSE [cc EXCEPT !.itut_t35 = Append(@,
                 [ country_code |-> country_code,
                   country_code_extension_byte |-> country_code_extension_byte,
                   payload_size |-> payload_size,
                   payload |-> SubSeq(B, k + 1, k + payload_size) ])]

\* meta.type is the leb128 metadata type (meta.overrun: reading it overran),
\* meta.v the descriptor the HDR payload decodes to, meta.tb its trailing
\* bits, meta.bytes the bytes that follow the type
MetadataObu(cc, meta) ==
    IF meta.overrun THEN [c |-> cc, goto |-> "error", ev |-> {}]
    ELSE IF meta.type = OBU_META_HDR_CLL
    THEN IF ~check_trailing_bits(FALSE, meta.tb, cc.strict_std_compliance)
         THEN [c |-> cc, goto |-> "error", ev |-> {}]
         ELSE [c |-> [cc EXCEPT !.content_light = meta.v],
               goto |-> "break", ev |-> {}]
    ELSE IF meta.type = OBU_META_HDR_MDCV
    THEN IF ~check_trailing_bits(FALSE, meta.tb, cc.strict_std_compliance)
         THEN [c |-> cc, goto |-> "error", ev |-> {}]
         ELSE [c |-> [cc EXCEPT !.mastering_display = meta.v],
               goto |-> "break", ev |-> {}]
    ELSE IF meta.type = OBU_META_ITUT_T35
    THEN [c |-> ItutT35(cc, meta.bytes), goto |-> "break", ev |-> {}]
    ELSE [c |-> cc, goto |-> "break", ev |-> {}]

----------------------------------------------------------------------------
(* The switch on the OBU type *)

Dispatch(cc, h, pl) ==
    IF h.type = DAV1D_OBU_SEQ_HDR
    THEN IF pl.seq = NULL
         THEN [c |-> cc, goto |-> "error", ev |-> {}]
         ELSE [c |-> SeqHdrObu(cc, pl.seq), goto |-> "break",
               ev |-> {"seq_hdr"} \cup SeqHdrEvents(cc, pl.seq)]
    ELSE IF h.type \in {DAV1D_OBU_REDUNDANT_FRAME_HDR, DAV1D_OBU_FRAME,
                        DAV1D_OBU_FRAME_HDR}
    THEN FrameHdrObu(cc, h.type, h, pl)
    ELSE IF h.type = DAV1D_OBU_TILE_GRP
    THEN TileGrpObu(cc, pl.tg)
    ELSE IF h.type = DAV1D_OBU_METADATA
    THEN MetadataObu(cc, pl.meta)
    ELSE IF h.type = DAV1D_OBU_TD
    THEN [c |-> [cc EXCEPT !.frame_flags = @ \cup {"NEW_TEMPORAL_UNIT"}],
          goto |-> "break", ev |-> {}]
    ELSE [c |-> cc, goto |-> "break", ev |-> {}]

----------------------------------------------------------------------------
(* Output holders: c->out and c->frame_thread.out_delayed[] *)

\* An output holder is a Dav1dThreadPicture together with the properties
\* dav1d_picture_copy_props() stamps on it: m (the Dav1dDataProps of the
\* input), the HDR descriptors and the T.35 list.  progress is "FRAME_ERROR"
\* once the worker has failed the frame.  stamp is history: the rank of the
\* holder among the pictures attached to the ring.
ZeroOut ==
    [ p |-> ZeroPicture, visible |-> 0, showable |-> 0,
      m |-> ZeroProps, content_light |-> NULL, mastering_display |-> NULL,
      itut_t35 |-> << >>, progress |-> "", stamp |-> 0 ]

\* dav1d_thread_picture_ref(dst, src) followed by dav1d_picture_copy_props()
Holder(tp, visible, cc, m, stamp) ==
    [ p |-> tp.p, visible |-> visible, showable |-> tp.showable,
      m |-> m, content_light |-> cc.content_light,
      mastering_display |-> cc.mastering_display,
      itut_t35 |-> cc.itut_t35, progress |-> "", stamp |-> stamp ]

\* c->frame_thread.next++, wrapping at n_fc
NextCursor(next, n_fc) == IF next + 1 = n_fc THEN 0 ELSE next + 1

\* the consumer cursors, bumped when the slot holds an output or an error
BumpCursors(tt, n_fc) ==
    [ tt EXCEPT
      !.first = IF tt.first + 1 < n_fc THEN tt.first + 1 ELSE 0,
      !.reset_task_cur = IF @ = tt.first THEN -1 ELSE @,
      !.cur = IF @ # 0 /\ @ < n_fc THEN @ - 1 ELSE @ ]

\* a faulty variant: the error is cached, the worker keeps it
CachedErrorKept(cc, next, od) ==
    [cc EXCEPT !.cached_error = cc.fc[next].retval,
               !.cached_error_props = od.m,
               !.frame_thread.out_delayed[next] = ZeroOut]

\* if (error): the error of the worker is cached with the properties of the
\* delayed picture od of its slot, which is dropped
CachedError(cc, next, od) ==
    [cc EXCEPT !.cached_error = cc.fc[next].retval,
               !.fc[next].retval = 0,
               !.cached_error_props = od.m,
               !.frame_thread.out_delayed[next] = ZeroOut]

\* What the ring slot `next` yields once its worker has no pending tiles:
\* a worker error is cached and the delayed output dropped, otherwise a
\* visible delayed output is published to c->out.
HarvestSlot(cc, next) ==
    LET f  == cc.fc[next]
        od == cc.frame_thread.out_delayed[next]
        c1 == IF od.p.data # 0 \/ f.error # 0
              THEN [cc EXCEPT !.task_thread = BumpCursors(@, cc.n_fc)]
              ELSE cc
        error == f.retval
    IN  IF error # 0
        THEN CachedError(c1, next, od)
        ELSE IF od.p.data # 0
        THEN [c1 EXCEPT
                 !.out = IF (od.visible = 1 \/ cc.output_invisible_frames) /\
                            od.progress # "FRAME_ERROR"
                         THEN od ELSE @,
                 !.frame_thread.out_delayed[next] = ZeroOut]
        ELSE c1

\* a faulty variant: the slot read at c->frame_thread.next, which has moved
\* on by then
HarvestAtCursor(cc, next) == HarvestSlot(cc, cc.frame_thread.next)

\* the slot is the one the cursor named when the call took it
Harvest(cc, next) == HarvestSlot(cc, next)

\* the new picture is attached to the slot
Attach(cc, next, holder) ==
    [cc EXCEPT !.frame_thread.out_delayed[next] = holder]

----------------------------------------------------------------------------
(* The end of dav1d_parse_obus: show_existing_frame, submit, skip *)

\* a faulty variant: the slots are released and not filled again
SkipRefsReleased(cc) ==
    [cc EXCEPT !.refs = [i \in Slots |->
        IF Bit(cc.frame_hdr.refresh_frame_flags, i) = 1
        THEN [@[i] EXCEPT !.p = ZeroThreadPicture,
                          !.frame_hdr_ref = NULL, !.seq_hdr_ref = NULL]
        ELSE @[i]]]

\* a faulty variant: every slot takes the headers
SkipRefsAll(cc) ==
    [cc EXCEPT !.refs = [i \in Slots |->
        [@[i] EXCEPT !.p = [ZeroThreadPicture EXCEPT
                               !.p.frame_hdr = cc.frame_hdr,
                               !.p.seq_hdr = cc.seq_hdr],
                     !.frame_hdr_ref = cc.frame_hdr_ref,
                     !.seq_hdr_ref = cc.seq_hdr_ref]]]

\* "update refs with only the headers in case we skip the frame"
SkipRefs(cc) ==
    [cc EXCEPT !.refs = [i \in Slots |->
        IF Bit(cc.frame_hdr.refresh_frame_flags, i) = 1
        THEN [@[i] EXCEPT !.p = [ZeroThreadPicture EXCEPT
                                    !.p.frame_hdr = cc.frame_hdr,
                                    !.p.seq_hdr = cc.seq_hdr],
                          !.frame_hdr_ref = cc.frame_hdr_ref,
                          !.seq_hdr_ref = cc.seq_hdr_ref]
        ELSE @[i]]]

\* a faulty variant: the context keeps its reference to the frame header
SkipKeepsRef(cc) == [SkipRefs(cc) EXCEPT !.frame_hdr = NULL, !.n_tiles = 0]

\* skip: the slots take the headers, then dav1d_ref_dec(&c->frame_hdr_ref)
Skip(cc) ==
    [SkipRefs(cc) EXCEPT !.frame_hdr_ref = NULL,
                         !.refs = Retired(@, TRUE, FALSE),
                         !.frame_hdr = NULL, !.n_tiles = 0]

\* a faulty variant: the picture alone is copied, the CDF and the
\* segmentation map of the other slots stay
FanOutPicture(cc, r) ==
    [cc EXCEPT
       !.refs = [i \in Slots |->
                   IF i = r THEN [@[r] EXCEPT !.p.showable = 0]
                   ELSE [@[i] EXCEPT
                            !.p = [cc.refs[r].p EXCEPT !.showable = 0],
                            !.frame_hdr_ref = cc.refs[r].frame_hdr_ref,
                            !.seq_hdr_ref = cc.refs[r].seq_hdr_ref]]]

\* a shown KEY frame is copied from slot r into every other slot
FanOut(cc, r) ==
    [cc EXCEPT
       !.refs = [i \in Slots |->
                   IF i = r THEN [@[r] EXCEPT !.p.showable = 0]
                   ELSE [ p |-> [@[r].p EXCEPT !.showable = 0],
                          segmap |-> @[r].segmap,
                          refmvs |-> 0,
                          frame_hdr_ref |-> @[r].frame_hdr_ref,
                          seq_hdr_ref |-> @[r].seq_hdr_ref ]],
       !.cdf = [i \in Slots |-> @[r]]]

\* a faulty variant: the rule of INTER frames applied to INTRA frames too
DropExistingNotKey(frame_type, decode_frame_type) ==
    frame_type # "KEY" /\ decode_frame_type > DAV1D_DECODEFRAMETYPE_REFERENCE

\* the decode_frame_type filter on a show_existing_frame, by the type of
\* the frame in the slot
DropExisting(frame_type, decode_frame_type) ==
    \/ frame_type \in {"INTER", "SWITCH"} /\
       decode_frame_type > DAV1D_DECODEFRAMETYPE_REFERENCE
    \/ frame_type = "INTRA" /\ decode_frame_type > DAV1D_DECODEFRAMETYPE_INTRA

\* the decode_frame_type filter on a complete frame
DropFrame(hdr, decode_frame_type) ==
    \/ hdr.frame_type \in {"INTER", "SWITCH"} /\
       ( decode_frame_type > DAV1D_DECODEFRAMETYPE_REFERENCE \/
         ( decode_frame_type = DAV1D_DECODEFRAMETYPE_REFERENCE /\
           hdr.refresh_frame_flags = 0 ) )
    \/ hdr.frame_type = "INTRA" /\
       ( decode_frame_type > DAV1D_DECODEFRAMETYPE_INTRA \/
         ( decode_frame_type = DAV1D_DECODEFRAMETYPE_REFERENCE /\
           hdr.refresh_frame_flags = 0 ) )

\* a faulty variant: some tile of the frame has been recorded
TilesStarted(cc) == cc.n_tiles > 0

\* every tile of the frame has been recorded
TilesComplete(cc) ==
    cc.n_tiles = cc.frame_hdr.tiling.cols * cc.frame_hdr.tiling.rows

\* a faulty variant: with one worker the T.35 list stays in the context
EmitExistingKeepsT35(cc, next, m, stamp) ==
    LET r  == cc.frame_hdr.existing_frame_idx
        tp == cc.refs[r].p
        c1 == IF cc.n_fc = 1
              THEN [cc EXCEPT !.out = Holder(tp, tp.visible, cc, m, 0)]
              ELSE [Attach(Harvest(cc, next), next, Holder(tp, 1, cc, m, stamp))
                        EXCEPT !.itut_t35 = << >>]
        c2 == IF tp.p.frame_hdr.frame_type = "KEY" THEN FanOut(c1, r) ELSE c1
    IN  [c2 EXCEPT !.frame_hdr = NULL]

\* The emission of the picture in slot existing_frame_idx, from the point
\* where the ring slot `next` is free: attach, fan out, drop the header.
EmitExisting(cc, next, m, stamp) ==
    LET r  == cc.frame_hdr.existing_frame_idx
        tp == cc.refs[r].p
        c1 == IF cc.n_fc = 1
              THEN [cc EXCEPT !.out = Holder(tp, tp.visible, cc, m, 0),
                              !.itut_t35 = << >>]
              ELSE [Attach(Harvest(cc, next), next, Holder(tp, 1, cc, m, stamp))
                        EXCEPT !.itut_t35 = << >>]
        c2 == IF tp.p.frame_hdr.frame_type = "KEY" THEN FanOut(c1, r) ELSE c1
    IN  [c2 EXCEPT !.frame_hdr = NULL]

\* dav1d_submit_frame(), on success, from the point where the ring slot
\* `next` is free: a new picture holds the frame, it goes to the output (one
\* worker) or to the ring slot (several workers, whose worker now owns the
\* tile groups), and to the slots named by refresh_frame_flags.  The frame
\* takes the context's reference to the frame header (c->frame_hdr_ref is
\* NULL afterwards) and a reference of its own to the sequence header.
dav1d_submit_frame(cc, next, m, stamp) ==
    LET hdr == cc.frame_hdr
        tp  == [ p |-> [data |-> 1, frame_hdr |-> hdr, seq_hdr |-> cc.seq_hdr],
                 visible |-> hdr.show_frame, showable |-> hdr.showable_frame ]
        tok == CASE hdr.frame_type = "KEY" -> 1
                 [] hdr.frame_type = "INTER" -> 2
                 [] hdr.frame_type = "INTRA" -> 3
                 [] OTHER -> 4
        c1  == IF cc.n_fc = 1
               THEN [cc EXCEPT
                       !.out = IF hdr.show_frame = 1 \/ cc.output_invisible_frames
                               THEN Holder(tp, tp.visible, cc, m, 0) ELSE @]
               ELSE [Attach(Harvest(cc, next), next,
                            Holder(tp, tp.visible, cc, m, stamp))
                         EXCEPT !.fc[next].n_tile_data = Len(cc.tile)]
    IN  [c1 EXCEPT
           !.refs = [i \in Slots |->
                       IF Bit(hdr.refresh_frame_flags, i) = 1
                       THEN [ p |-> tp, segmap |-> tok, refmvs |-> tok,
                              frame_hdr_ref |-> Elsewhere,
                              seq_hdr_ref |-> cc.seq_hdr_ref ]
                       ELSE @[i]],
           !.cdf = [i \in Slots |->
                       IF Bit(hdr.refresh_frame_flags, i) = 1 THEN tok ELSE @[i]],
           !.frame_hdr_ref = NULL,
           !.itut_t35 = << >>,
           !.tile = << >>]

\* What the end of the call decides:
\*   "return"  nothing to hand off,   "error"  goto error,
\*   "skip"    goto skip,             "emit"   show_existing_frame,
\*   "submit"  dav1d_submit_frame
\* a faulty variant: strict or not, a picture that is not showable is shown
DecideShowsAgain(cc) ==
    IF cc.seq_hdr = NULL \/ cc.frame_hdr = NULL THEN "return"
    ELSE IF cc.frame_hdr.show_existing_frame = 1
    THEN LET ref == cc.refs[cc.frame_hdr.existing_frame_idx].p
         IN  IF ref.p.frame_hdr = NULL THEN "error"
             ELSE IF DropExisting(ref.p.frame_hdr.frame_type, cc.decode_frame_type)
             THEN "skip"
             ELSE IF ref.p.data = 0 THEN "error"
             ELSE "emit"
    ELSE IF TilesComplete(cc)
    THEN IF DropFrame(cc.frame_hdr, cc.decode_frame_type) THEN "skip"
         ELSE IF Len(cc.tile) = 0 THEN "error"
         ELSE "submit"
    ELSE "return"

Decide(cc) ==
    IF cc.seq_hdr = NULL \/ cc.frame_hdr = NULL THEN "return"
    ELSE IF cc.frame_hdr.show_existing_frame = 1
    THEN LET ref == cc.refs[cc.frame_hdr.existing_frame_idx].p
         IN  IF ref.p.frame_hdr = NULL THEN "error"
             ELSE IF DropExisting(ref.p.frame_hdr.frame_type, cc.decode_frame_type)
             THEN "skip"
             ELSE IF ref.p.data = 0 THEN "error"
             ELSE IF cc.strict_std_compliance /\ ref.showable = 0 THEN "error"
             ELSE "emit"
    ELSE IF TilesComplete(cc)
    THEN IF DropFrame(cc.frame_hdr, cc.decode_frame_type) THEN "skip"
         ELSE IF Len(cc.tile) = 0 THEN "error"
         ELSE "submit"
    ELSE "return"

----------------------------------------------------------------------------
(* One call of dav1d_parse_obus, up to the hand-off *)

\* error: dav1d_data_props_copy(&c->cached_error_props, &in->m)
Error(cc, in, ev) ==
    [ c |-> [cc EXCEPT !.cached_error_props = in.m],
      val |-> DAV1D_ERR(EINVAL), ev |-> ev, handoff |-> "none" ]

Return(cc, val, ev) == [c |-> cc, val |-> val, ev |-> ev, handoff |-> "none"]

\* the end of the call: d is what the switch has left, what is Decide(d.c)
RunEnd(in, h, d, what) ==
    IF what = "return" THEN Return(d.c, ObuSize(h.gb), d.ev)
    ELSE IF what = "error" THEN Error(d.c, in, d.ev)
    ELSE IF what = "skip"
    THEN Return(Skip(d.c), ObuSize(h.gb), d.ev \cup {"skip"})
    ELSE [ c |-> d.c, val |-> ObuSize(h.gb), ev |-> d.ev \cup {what},
           handoff |-> what ]

\* after the switch on the type, whose result is d
RunSwitched(in, h, d) ==
    IF d.goto = "error" THEN Error(d.c, in, d.ev)
    ELSE IF d.goto = "erange" THEN Return(d.c, DAV1D_ERR(ERANGE), d.ev)
    ELSE RunEnd(in, h, d, Decide(d.c))

\* after the OBU header, which is h
RunHeader(cc, in, h) ==
    IF h.forbidden \/ h.too_long \/ h.gb.error
    THEN Error(cc, in, {})
    ELSE IF LayerDropped(h.type, h.has_extension, h.temporal_id,
                         h.spatial_id, cc.operating_point_idc)
    THEN Return(cc, ObuSize(h.gb), {})
    ELSE RunSwitched(in, h, Dispatch(cc, h, in.pl))

\* The call on context cc and input in.  handoff tells whether the call
\* goes on to emit an existing frame or to submit a frame.
Run(cc, in) == RunHeader(cc, in, ObuHeader(in, cc.strict_std_compliance))

\* The rest of the call once the ring slot `next` has no pending tiles
Complete(cc, kind, next, m, stamp) ==
    IF kind = "emit"
    THEN EmitExisting(cc, next, m, stamp)
    ELSE [dav1d_submit_frame(cc, next, m, stamp) EXCEPT
             !.frame_hdr = NULL, !.n_tiles = 0,
             !.fc = IF cc.n_fc > 1 THEN [@ EXCEPT ![next].error = 0] ELSE @]

----------------------------------------------------------------------------
(* State *)

NoCall == [kind |-> "none"]

\* dav1d_parse_sequence_header is not running
NoScan == [pc |-> "idle"]

\* no header parser is at work
NoParse == [pc |-> "idle"]

\* the caller holds no buffer
NoFeed == [buf |-> << >>, given |-> << >>, total |-> 0, consumed |-> 0]

\* the context after dav1d_open() with the given settings
InitContext(s) ==
    [ strict_std_compliance |-> s.strict_std_compliance,
      decode_frame_type |-> s.decode_frame_type,
      operating_point |-> s.operating_point,
      frame_size_limit |-> s.frame_size_limit,
      output_invisible_frames |-> FALSE,
      n_fc |-> s.n_fc,
      seq_hdr |-> NULL, frame_hdr |-> NULL,
      seq_hdr_ref |-> NULL, frame_hdr_ref |-> NULL,
      tile |-> << >>, n_tiles |-> 0,
      refs |-> [i \in Slots |-> ZeroRef],
      cdf |-> [i \in Slots |-> 0],
      frame_flags |-> {},
      operating_point_idc |-> 0, max_spatial_id |-> 0,
      content_light |-> NULL, mastering_display |-> NULL, itut_t35 |-> << >>,
      cached_error |-> 0, cached_error_props |-> ZeroProps,
      out |-> ZeroOut,
      frame_thread |-> [ next |-> 0,
                         out_delayed |-> [i \in 0 .. (s.n_fc - 1) |-> ZeroOut] ],
      fc |-> [i \in 0 .. (s.n_fc - 1) |->
                 [n_tile_data |-> 0, retval |-> 0, error |-> 0]],
      task_thread |-> [first |-> 0, cur |-> 0, reset_task_cur |-> -1,
                        lock |-> "free"] ]

Settings(strict, dft, op, limit, n_fc) ==
    [ strict_std_compliance |-> strict, decode_frame_type |-> dft,
      operating_point |-> op, frame_size_limit |-> limit, n_fc |-> n_fc ]

InitWith(settings) ==
    /\ \E s \in settings : c = InitContext(s)
    /\ ret = [val |-> 0, ev |-> {}, out |-> ZeroOut]
    /\ call = NoCall
    /\ hist = [n_attach |-> 0, published |-> 0]
    /\ feed = NoFeed
    /\ scan = NoScan
    /\ parse = NoParse

----------------------------------------------------------------------------
(* Actions *)

\* What a finished call leaves behind: its return value, what it did (the
\* event flags it raised, how it ended), and the picture it put into c->out,
\* which the caller takes before it calls again.
Done(r, in, cc) ==
    [val |-> r.val, ev |-> r.ev, out |-> cc.out]

Taken(cc) == [cc EXCEPT !.out = ZeroOut]

\* the history of the output ring after a call that attached a picture and
\* published the picture in out
Attached(h, out) ==
    [ n_attach |-> h.n_attach + 1,
      published |-> IF out = ZeroOut THEN h.published ELSE out.stamp ]

\* the call ends: cc is the context it leaves, with the picture in out
Finish(r, in, cc) ==
    /\ c' = Taken(cc)
    /\ ret' = Done(r, in, cc)

\* the call has taken the ring slot `next` and left the context c1: it
\* waits for the worker of the slot, or goes on
TakeSlot(r, in, next, c1) ==
    IF c1.fc[next].n_tile_data > 0
    THEN /\ c' = c1
         /\ call' = [ kind |-> r.handoff, next |-> next, m |-> in.m,
                      done |-> Done(r, in, c1) ]
         /\ UNCHANGED <<ret, hist>>
    ELSE /\ Finish(r, in, Complete(c1, r.handoff, next, in.m, hist.n_attach + 1))
         /\ hist' = Attached(hist, ret'.out)
         /\ UNCHANGED call

\* the call whose parse of the OBU has given r
Handoff(r, in) ==
    IF r.handoff = "none"
    THEN /\ c' = r.c
         /\ ret' = Done(r, in, r.c)
         /\ UNCHANGED <<call, hist>>
    ELSE IF c.n_fc = 1
    THEN /\ Finish(r, in, Complete(r.c, r.handoff, 0, in.m, 0))
         /\ UNCHANGED <<call, hist>>
    ELSE /\ hist.n_attach < MaxAttach
         /\ TakeSlot(r, in, c.frame_thread.next,
                     [r.c EXCEPT !.frame_thread.next =
                                     NextCursor(c.frame_thread.next, c.n_fc)])

\* dav1d_parse_obus(c, in)
ParseObus(in) ==
    /\ call = NoCall
    /\ Handoff(Run(c, in), in)

\* the call suspended in pthread_cond_wait() goes on: the worker of its
\* ring slot has no pending tiles
Resume ==
    /\ call # NoCall
    /\ c.fc[call.next].n_tile_data = 0
    /\ Finish([val |-> call.done.val, ev |-> call.done.ev], call.m,
              Complete(c, call.kind, call.next, call.m, hist.n_attach + 1))
    /\ hist' = Attached(hist, ret'.out)
    /\ call' = NoCall

\* the worker of ring slot i finishes its frame
WorkerDone(i) ==
    /\ c.fc[i].n_tile_data > 0
    /\ c' = [c EXCEPT !.fc[i].n_tile_data = 0]
    /\ UNCHANGED <<ret, call, hist>>

\* the worker of ring slot i fails its frame
WorkerFail(i) ==
    /\ c.fc[i].n_tile_data > 0
    /\ c' = [c EXCEPT !.fc[i] = [n_tile_data |-> 0,
                                 retval |-> DAV1D_ERR(EINVAL), error |-> 1],
                      !.frame_thread.out_delayed[i].progress = "FRAME_ERROR"]
    /\ UNCHANGED <<ret, call, hist>>

----------------------------------------------------------------------------
(* Inputs: the OBUs handed to dav1d_parse_obus *)

GoodTb == [one |-> TRUE, clean |-> TRUE]
BadTb  == [one |-> FALSE, clean |-> TRUE]

NoTg   == [have_tile_pos |-> 0, start |-> 0, end |-> 0, overrun |-> FALSE]
NoMeta == [type |-> 0, v |-> NULL, tb |-> GoodTb, bytes |-> << >>, overrun |-> FALSE]

\* a payload that decodes to nothing
NoPayload ==
    [ seq |-> NULL, fh |-> NULL, fh_overrun |-> FALSE, tb |-> GoodTb,
      tg |-> NoTg, meta |-> NoMeta ]

\* the byte obu_forbidden_bit(1) obu_type(4) has_extension(1)
\* has_length_field(1) reserved(1)
HdrByte(type, has_extension, has_length_field) ==
    type * 8 + has_extension * 4 + has_length_field * 2

\* the byte temporal_id(3) spatial_id(2) reserved(3)
ExtByte(temporal_id, spatial_id) == temporal_id * 32 + spatial_id * 8

\* An OBU with a length field that holds its payload of len bytes exactly
Obu(type, len, m, pl) ==
    [ data |-> << HdrByte(type, 0, 1), len >>, sz |-> 2 + len, m |-> m, pl |-> pl ]

\* The same with an extension byte
ObuExt(type, temporal_id, spatial_id, len, m, pl) ==
    [ data |-> << HdrByte(type, 1, 1), ExtByte(temporal_id, spatial_id), len >>,
      sz |-> 3 + len, m |-> m, pl |-> pl ]

\* An OBU whose length field tells more bytes than the buffer holds
ObuTooLong(type, m, pl) ==
    [ data |-> << HdrByte(type, 0, 1), 5 >>, sz |-> 3, m |-> m, pl |-> pl ]

\* An OBU with the forbidden bit set
ObuForbidden(type, m, pl) ==
    [ data |-> << 128 + HdrByte(type, 0, 1), 1 >>, sz |-> 3, m |-> m, pl |-> pl ]

SeqPayloads == {[NoPayload EXCEPT !.seq = q] : q \in SeqHdrs \cup {NULL}}

ExistingIdx == {0, 1}
NewHdrs == {HdrKey, HdrInter}

FrameHdrPayloads ==
    {[NoPayload EXCEPT !.fh = f] :
        f \in NewHdrs \cup {ShowExisting(i) : i \in ExistingIdx} \cup {NULL}}

\* the tile group bits that make sense for a frame of n tiles, numbered
\* with n_bits bits
TileGroups(n, n_bits) ==
    {NoTg} \cup
    {[have_tile_pos |-> 1, start |-> a, end |-> b, overrun |-> FALSE] :
        a, b \in IF n > 1 THEN 0 .. (Pow2(n_bits) - 1) ELSE {}}

HdrTileGroups(hdr) ==
    IF hdr = NULL THEN {NoTg}
    ELSE TileGroups(hdr.tiling.cols * hdr.tiling.rows,
                    hdr.tiling.log2_cols + hdr.tiling.log2_rows)

FramePayloads ==
    {[NoPayload EXCEPT !.fh = f, !.tg = t] :
        f \in NewHdrs, t \in {NoTg, [NoTg EXCEPT !.have_tile_pos = 1]}}
    \cup {[NoPayload EXCEPT !.fh = HdrInter, !.fh_overrun = TRUE]}

TilePayloads(hdr) == {[NoPayload EXCEPT !.tg = t] : t \in HdrTileGroups(hdr)}

Cll(v, tb) == [NoMeta EXCEPT !.type = OBU_META_HDR_CLL, !.v = [max_content_light_level |-> v], !.tb = tb]
Mdcv(v, tb) == [NoMeta EXCEPT !.type = OBU_META_HDR_MDCV, !.v = [max_luminance |-> v], !.tb = tb]
T35(bytes) == [NoMeta EXCEPT !.type = OBU_META_ITUT_T35, !.bytes = bytes]

\* the inputs of the demultiplexer with one frame context
Inputs(cc) ==
    {Obu(DAV1D_OBU_SEQ_HDR, 1, 1, pl) : pl \in SeqPayloads}
    \cup {Obu(DAV1D_OBU_FRAME_HDR, 1, 1, pl) : pl \in FrameHdrPayloads}
    \cup {Obu(DAV1D_OBU_REDUNDANT_FRAME_HDR, 1, 1, [NoPayload EXCEPT !.fh = HdrKey])}
    \cup {Obu(DAV1D_OBU_FRAME, 1, 1, pl) : pl \in FramePayloads}
    \cup {Obu(DAV1D_OBU_TILE_GRP, 1, 1, pl) : pl \in TilePayloads(cc.frame_hdr)}
    \cup {Obu(DAV1D_OBU_METADATA, 1, 1, [NoPayload EXCEPT !.meta = Cll(1, GoodTb)])}
    \cup {ObuTooLong(DAV1D_OBU_TD, 1, NoPayload)}

----------------------------------------------------------------------------
(* Specifications *)

\* one frame context (n_fc = 1): every frame decoded, and key frames only
Settings1 ==
    { Settings(FALSE, DAV1D_DECODEFRAMETYPE_ALL, 0, 0, 1),
      Settings(FALSE, DAV1D_DECODEFRAMETYPE_KEY, 0, 0, 1) }

Init == InitWith(Settings1)

Next == (\E in \in Inputs(c) : ParseObus(in)) /\ UNCHANGED <<feed, scan, parse>>

Spec == Init /\ [][Next]_vars

\* the bytes of a T.35 message after the metadata type: country code,
\* extension byte after the country code 0xFF, payload, the trailing one bit
\* in its byte, z trailing zero bytes
T35Bytes(country_code, ext, payload, z) ==
    << country_code >> \o (IF country_code = 255 THEN << ext >> ELSE << >>)
        \o payload \o << 128 >> \o [i \in 1 .. z |-> 0]

MetaObu(meta) ==
    Obu(DAV1D_OBU_METADATA, 1 + Len(meta.bytes), 1, [NoPayload EXCEPT !.meta = meta])

\* metadata and frames, with one frame context: HDR descriptors, T.35
\* messages (MaxT35 of them at most are held at a time), frame
\* headers and redundant frame headers, shown existing frames
SettingsMeta == { Settings(FALSE, DAV1D_DECODEFRAMETYPE_ALL, 0, 0, 1) }

InputsMeta(cc) ==
    {Obu(DAV1D_OBU_SEQ_HDR, 1, 1, [NoPayload EXCEPT !.seq = SeqA])}
    \cup {Obu(DAV1D_OBU_FRAME, 1, 1, [NoPayload EXCEPT !.fh = HdrKey])}
    \cup {Obu(DAV1D_OBU_FRAME_HDR, 1, 1, [NoPayload EXCEPT !.fh = f]) :
             f \in {HdrInter, ShowExisting(0)}}
    \cup {Obu(DAV1D_OBU_REDUNDANT_FRAME_HDR, 2, 1, [NoPayload EXCEPT !.fh = f]) :
             f \in {HdrKey, HdrInter, ShowExisting(0), NULL}}
    \cup {Obu(DAV1D_OBU_TILE_GRP, 1, 1, [NoPayload EXCEPT !.tg = t]) :
             t \in {[have_tile_pos |-> 1, start |-> a, end |-> a, overrun |-> FALSE] :
                       a \in {0, 1}}}
    \cup {MetaObu(m) : m \in {Cll(1, GoodTb), Mdcv(1, GoodTb)}}
    \cup {MetaObu(T35(B)) :
             B \in IF Len(cc.itut_t35) < MaxT35
                   THEN { T35Bytes(255, 1, << 18, 52, 86 >>, 0),
                          T35Bytes(181, 0, << 0 >>, 2),
                          << 181, 1 >> }
                   ELSE {}}

InitMeta == InitWith(SettingsMeta)

NextMeta == (\E in \in InputsMeta(c) : ParseObus(in)) /\ UNCHANGED <<feed, scan, parse>>

SpecMeta == InitMeta /\ [][NextMeta]_vars

----------------------------------------------------------------------------
(* The envelope: a caller that feeds a buffer of bytes, one OBU per call *)

\* the context a call leaves, with one frame context, when its parse of
\* the OBU has given r
Ended(r, in) ==
    IF r.handoff = "none" THEN r.c
    ELSE Taken(Complete(r.c, r.handoff, 0, in.m, 0))

\* the call as a function of the context, with one frame context
Call(cc, in) == Ended(Run(cc, in), in)

RECURSIVE After(_, _)
After(cc, ins) ==
    IF ins = << >> THEN cc ELSE After(Call(cc, Head(ins)), Tail(ins))

\* a context in the middle of a frame: sequence header, HDR metadata, a key
\* frame in every slot, a pending frame header with one of its two tiles
MidFrame ==
    << Obu(DAV1D_OBU_SEQ_HDR, 1, 1, [NoPayload EXCEPT !.seq = SeqA]),
       Obu(DAV1D_OBU_METADATA, 1, 1, [NoPayload EXCEPT !.meta = Cll(1, GoodTb)]),
       Obu(DAV1D_OBU_FRAME, 1, 1, [NoPayload EXCEPT !.fh = HdrKey]),
       Obu(DAV1D_OBU_FRAME_HDR, 1, 1, [NoPayload EXCEPT !.fh = HdrInter]),
       Obu(DAV1D_OBU_TILE_GRP, 1, 1,
           [NoPayload EXCEPT !.tg = [have_tile_pos |-> 1, start |-> 0,
                                     end |-> 0, overrun |-> FALSE]]) >>

\* the contexts the buffer is fed to: a fresh one (lenient and strict), one
\* that has selected the operating point 0x101 of SeqB, one in mid-frame
EnvContexts ==
    LET c0 == InitContext(Settings(FALSE, DAV1D_DECODEFRAMETYPE_ALL, 0, 0, 1))
    IN  { c0,
          InitContext(Settings(TRUE, DAV1D_DECODEFRAMETYPE_ALL, 0, 0, 1)),
          After(c0, << Obu(DAV1D_OBU_SEQ_HDR, 1, 1,
                           [NoPayload EXCEPT !.seq = SeqB]) >>),
          After(c0, MidFrame) }

\* the bytes of the buffers: three OBU headers of type TD (bare, with a
\* length field, with extension and length field), and bytes that read as a
\* length, an extension byte or a header of the reserved type 0
Bytes ==
    { HdrByte(DAV1D_OBU_TD, 0, 0), HdrByte(DAV1D_OBU_TD, 0, 1),
      HdrByte(DAV1D_OBU_TD, 1, 1), 0, 1, 129 }

Buffers == UNION {[1 .. n -> Bytes] : n \in 1 .. MaxSz}

\* the caller advances its buffer by the bytes consumed, and gives the
\* buffer up when the call fails
Consume(f, val) ==
    [ buf |-> IF val > 0 THEN SubSeq(f.buf, val + 1, Len(f.buf)) ELSE << >>,
      given |-> f.buf,
      total |-> f.total,
      consumed |-> f.consumed + (IF val > 0 THEN val ELSE 0) ]

\* the Dav1dDataProps (in->m) of the buffers fed
FeedProps == 1

InitEnv ==
    /\ c \in EnvContexts
    /\ ret = [val |-> 0, ev |-> {}, out |-> ZeroOut]
    /\ call = NoCall
    /\ hist = [n_attach |-> 0, published |-> 0]
    /\ \E b \in Buffers :
          feed = [buf |-> b, given |-> << >>, total |-> Len(b), consumed |-> 0]
    /\ scan = NoScan
    /\ parse = NoParse

Feed ==
    /\ feed.buf # << >>
    /\ ParseObus([data |-> feed.buf, sz |-> Len(feed.buf), m |-> FeedProps,
                  pl |-> NoPayload])
    /\ feed' = Consume(feed, ret'.val)
    /\ UNCHANGED <<scan, parse>>

NextEnv == Feed

SpecEnv == InitEnv /\ [][NextEnv]_vars

----------------------------------------------------------------------------
(* Several frame contexts: the output ring and its workers *)

SettingsMT == {Settings(FALSE, DAV1D_DECODEFRAMETYPE_ALL, 0, 0, 2)}

InputsMT ==
    { Obu(DAV1D_OBU_SEQ_HDR, 1, 1, [NoPayload EXCEPT !.seq = SeqA]),
      Obu(DAV1D_OBU_FRAME, 1, 1, [NoPayload EXCEPT !.fh = HdrKey]),
      Obu(DAV1D_OBU_FRAME, 1, 2, [NoPayload EXCEPT !.fh = HdrInter]),
      Obu(DAV1D_OBU_FRAME_HDR, 1, 3, [NoPayload EXCEPT !.fh = ShowExisting(1)]) }

InitMT == InitWith(SettingsMT)

NextMT ==
    \/ (\E in \in InputsMT : ParseObus(in)) /\ UNCHANGED <<feed, scan, parse>>
    \/ Resume /\ UNCHANGED <<feed, scan, parse>>
    \/ (\E i \in 0 .. (c.n_fc - 1) : WorkerDone(i)) /\ UNCHANGED <<feed, scan, parse>>
    \/ (\E i \in 0 .. (c.n_fc - 1) : WorkerFail(i)) /\ UNCHANGED <<feed, scan, parse>>

SpecMT == InitMT /\ [][NextMT]_vars

----------------------------------------------------------------------------
(* The decode_frame_type filter: one frame context, every setting of it *)

SettingsFilter ==
    { Settings(FALSE, t, 0, 0, 1) :
        t \in DAV1D_DECODEFRAMETYPE_ALL .. DAV1D_DECODEFRAMETYPE_KEY }

FilterIdx == {0, 1, 2}

InputsFilter ==
    { Obu(DAV1D_OBU_SEQ_HDR, 1, 1, [NoPayload EXCEPT !.seq = SeqA]) }
    \cup { Obu(DAV1D_OBU_FRAME, 1, 1, [NoPayload EXCEPT !.fh = f]) :
             f \in {HdrKey, HdrInter, HdrIntra, HdrSwitch} }
    \cup { Obu(DAV1D_OBU_FRAME_HDR, 1, 1, [NoPayload EXCEPT !.fh = ShowExisting(i)]) :
             i \in FilterIdx }

InitFilter == InitWith(SettingsFilter)

NextFilter == (\E in \in InputsFilter : ParseObus(in)) /\ UNCHANGED <<feed, scan, parse>>

SpecFilter == InitFilter /\ [][NextFilter]_vars

----------------------------------------------------------------------------
(* Operating points and the frame size limit: one frame context, the     *)
(* operating point 0 or 1 selected, frames of at most 192 * 64 pixels      *)

SettingsSel ==
    { Settings(FALSE, DAV1D_DECODEFRAMETYPE_ALL, op, 192 * 64, 1) : op \in {0, 1} }

InputsSel(cc) ==
    { Obu(DAV1D_OBU_SEQ_HDR, 1, 1, [NoPayload EXCEPT !.seq = q]) :
        q \in {SeqA, SeqB, SeqC} }
    \cup { ObuExt(DAV1D_OBU_SEQ_HDR, 1, 1, 1, 1, [NoPayload EXCEPT !.seq = SeqB]),
           ObuExt(DAV1D_OBU_TD, 1, 1, 1, 1, NoPayload),
           Obu(DAV1D_OBU_FRAME, 1, 1, [NoPayload EXCEPT !.fh = HdrKey]),
           Obu(DAV1D_OBU_FRAME, 1, 1, [NoPayload EXCEPT !.fh = HdrBig]),
           Obu(DAV1D_OBU_FRAME_HDR, 1, 1, [NoPayload EXCEPT !.fh = HdrBig]),
           Obu(DAV1D_OBU_FRAME_HDR, 1, 1, [NoPayload EXCEPT !.fh = Hdr3]) }
    \cup { ObuExt(DAV1D_OBU_FRAME, t, sp, 1, 1, [NoPayload EXCEPT !.fh = HdrKey]) :
             t \in {0, 1}, sp \in {0, 1} }
    \cup { Obu(DAV1D_OBU_TILE_GRP, 1, 1, pl) : pl \in TilePayloads(cc.frame_hdr) }

InitSel == InitWith(SettingsSel)

NextSel == (\E in \in InputsSel(c) : ParseObus(in)) /\ UNCHANGED <<feed, scan, parse>>

SpecSel == InitSel /\ [][NextSel]_vars

----------------------------------------------------------------------------
(* dav1d_parse_sequence_header(out, ptr, sz): the scan of a buffer for its *)
(* sequence headers.  It works on no context.  One turn of its do-while    *)
(* loop is one step.                                                       *)

\* parse_seq_hdr(out, &gb, 0) on the bytes at gb.ptr.  In these buffers the
\* payload of a sequence header is one byte that names the descriptor it
\* decodes to: 1 is SeqA, 2 is SeqB, any other byte is a syntax that
\* parse_seq_hdr refuses.  A failed parse leaves out partly written.
parse_seq_hdr(in, gb) ==
    LET r == GetByte(in, gb)
    IN  IF r.gb.error \/ r.v \notin {1, 2}
        THEN [res |-> DAV1D_ERR(EINVAL), out |-> [partial |-> TRUE], gb |-> r.gb]
        ELSE [res |-> 0, out |-> IF r.v = 1 THEN SeqA ELSE SeqB, gb |-> r.gb]

\* the header of the OBU at gb.ptr: type, has_extension, has_length_field,
\* the bits that are ignored, and the length
ScanHeader(in, gb) ==
    LET b == GetByte(in, gb)
        has_extension == (b.v \div 4) % 2
        has_length_field == (b.v \div 2) % 2
        e == IF has_extension = 1 THEN GetByte(in, b.gb).gb ELSE b.gb
        l == IF has_length_field = 1 THEN dav1d_get_uleb128(in, e)
                                     ELSE [v |-> 0, gb |-> e]
    IN  [ type |-> (b.v \div 8) % 16, has_length_field |-> has_length_field,
          len |-> l.v, gb |-> l.gb ]

\* a faulty variant: the length compared with the size of the buffer
ScanLenExceedsSize(len, obu_end, ptr) == len > obu_end

\* len > (size_t)(obu_end - gb.ptr)
ScanLenExceeds(len, obu_end, ptr) == len > obu_end - ptr

\* a faulty variant: the loop ends at the first sequence header
ScanUntilFound(res, ptr, ptr_end) == res # 0 /\ ptr < ptr_end

\* while (gb.ptr < gb.ptr_end); res is not looked at
ScanContinues(res, ptr, ptr_end) == ptr < ptr_end

\* the locals at the start of the loop
ScanStart(buf) ==
    [ data |-> buf, sz |-> Len(buf),
      gb |-> dav1d_init_get_bits([data |-> buf, sz |-> Len(buf)]),
      res |-> DAV1D_ERR(ENOENT), out |-> NULL, pc |-> "loop",
      ret |-> 0, n |-> 0 ]

\* one turn of the loop; n counts the turns
ScanStep(s) ==
    LET in == [data |-> s.data, sz |-> s.sz]
        Stop(res, out) ==
            [s EXCEPT !.pc = "done", !.ret = res, !.res = res, !.out = out,
                      !.n = @ + 1]
        Advance(gb, obu_end, res, out) ==
            IF gb.error THEN Stop(DAV1D_ERR(EINVAL), out)
            ELSE IF ScanContinues(res, obu_end, gb.ptr_end)
            THEN [s EXCEPT !.gb = [gb EXCEPT !.ptr = obu_end],
                           !.res = res, !.out = out, !.n = @ + 1]
            ELSE Stop(res, out)
        SeqHdrParsed(obu_end, p) ==
            IF p.res < 0 THEN Stop(p.res, p.out)
            ELSE IF p.gb.ptr > obu_end THEN Stop(DAV1D_ERR(EINVAL), p.out)
            ELSE Advance(p.gb, obu_end, p.res, p.out)
        ObuAt(h, obu_end) ==
            IF h.type = DAV1D_OBU_SEQ_HDR
            THEN SeqHdrParsed(obu_end, parse_seq_hdr(in, h.gb))
            ELSE Advance(h.gb, obu_end, s.res, s.out)
        Header(h) ==
            IF h.has_length_field = 1 /\
               ScanLenExceeds(h.len, h.gb.ptr_end, h.gb.ptr)
            THEN Stop(DAV1D_ERR(EINVAL), s.out)
            ELSE ObuAt(h, IF h.has_length_field = 1 THEN h.gb.ptr + h.len
                                                    ELSE h.gb.ptr_end)
    IN  Header(ScanHeader(in, s.gb))

\* the bytes of the buffers: headers of SEQ_HDR without and with length
\* field, of TD with length field, and bytes that read as a length, as the
\* payload of a sequence header or as the header of an OBU of type 0
ScanBytes ==
    { HdrByte(DAV1D_OBU_SEQ_HDR, 0, 0), HdrByte(DAV1D_OBU_SEQ_HDR, 0, 1),
      HdrByte(DAV1D_OBU_TD, 0, 1), HdrByte(DAV1D_OBU_TD, 1, 0), 0, 1, 2 }

InitScan ==
    /\ c = InitContext(Settings(FALSE, DAV1D_DECODEFRAMETYPE_ALL, 0, 0, 1))
    /\ ret = [val |-> 0, ev |-> {}, out |-> ZeroOut]
    /\ call = NoCall
    /\ hist = [n_attach |-> 0, published |-> 0]
    /\ feed = NoFeed
    /\ parse = NoParse
    /\ \E n \in 1 .. MaxScan : \E b \in [1 .. n -> ScanBytes] : scan = ScanStart(b)

\* a turn of the loop of dav1d_parse_sequence_header
ScanObu ==
    /\ scan.pc = "loop"
    /\ scan' = ScanStep(scan)
    /\ UNCHANGED <<c, ret, call, hist, feed, parse>>

NextScan == ScanObu

SpecScan == InitScan /\ [][NextScan]_vars

----------------------------------------------------------------------------
(* parse_seq_hdr, by the syntax elements it reads *)

\* a faulty variant: the temporal mask of the operating point is not looked at
IdcRefusedSpatial(idc) == idc # 0 /\ (idc \div 256) % 16 = 0

\* if (op->idc && (!(op->idc & 0xff) || !(op->idc & 0xf00))) goto error;
IdcRefused(idc) == idc # 0 /\ (idc % 256 = 0 \/ (idc \div 256) % 16 = 0)

\* parse_seq_hdr(hdr, gb, strict_std_compliance).  e holds the value of
\* every syntax element the function may read and that the layout, the bit
\* depth or the operating points depend on: a read that is not made leaves
\* the field 0 (memset).  pri, trc and mtrx are read as "BT709", "SRGB",
\* "IDENTITY", or "UNKNOWN" for any other value.  e.overrun and e.tb are
\* what check_trailing_bits finds.  The elements that are stored only
\* (levels, tiers, delays, dimensions, tool flags) and the errors of
\* timing_info are left out.
ParseSeqHdr(e, strict_std_compliance) ==
    LET reduced == e.reduced_still_picture_header
        idcs == IF reduced = 1 THEN << 0 >> ELSE e.idc
        hbd  == IF e.profile = 2 /\ e.hbd = 1 THEN e.hbd + e.hbd12 ELSE e.hbd
        monochrome == IF e.profile # 1 THEN e.monochrome ELSE 0
        pri  == IF e.color_description_present = 1 THEN e.pri ELSE "UNKNOWN"
        trc  == IF e.color_description_present = 1 THEN e.trc ELSE "UNKNOWN"
        mtrx == IF e.color_description_present = 1 THEN e.mtrx ELSE "UNKNOWN"
        srgb == pri = "BT709" /\ trc = "SRGB" /\ mtrx = "IDENTITY"
        ss_hor == IF monochrome = 1 THEN 1
                  ELSE IF srgb THEN 0
                  ELSE IF e.profile = 0 THEN 1
                  ELSE IF e.profile = 1 THEN 0
                  ELSE IF hbd = 2 THEN e.ss_hor ELSE 1
        ss_ver == IF monochrome = 1 THEN 1
                  ELSE IF srgb THEN 0
                  ELSE IF e.profile = 0 THEN 1
                  ELSE IF e.profile = 1 THEN 0
                  ELSE IF hbd = 2 /\ e.ss_hor = 1 THEN e.ss_ver ELSE 0
        layout == IF monochrome = 1 THEN "I400"
                  ELSE IF srgb THEN "I444"
                  ELSE IF e.profile = 0 THEN "I420"
                  ELSE IF e.profile = 1 THEN "I444"
                  ELSE IF ss_hor = 1
                       THEN IF ss_ver = 1 THEN "I420" ELSE "I422"
                       ELSE "I444"
        error == \/ e.profile > 2
                 \/ reduced = 1 /\ e.still_picture = 0
                 \/ \E i \in 1 .. Len(idcs) : IdcRefused(idcs[i])
                 \/ /\ monochrome = 0 /\ srgb
                    /\ e.profile # 1 /\ ~(e.profile = 2 /\ hbd = 2)
                 \/ strict_std_compliance /\ mtrx = "IDENTITY" /\ layout # "I444"
    IN  [ res |-> IF error \/ ~check_trailing_bits(e.overrun, e.tb, strict_std_compliance)
                  THEN DAV1D_ERR(EINVAL) ELSE 0,
          hdr |-> [ profile |-> e.profile,
                    still_picture |-> e.still_picture,
                    reduced_still_picture_header |-> reduced,
                    num_operating_points |-> Len(idcs),
                    operating_points |-> [i \in 1 .. Len(idcs) |-> [idc |-> idcs[i]]],
                    hbd |-> hbd, monochrome |-> monochrome,
                    pri |-> pri, trc |-> trc, mtrx |-> mtrx,
                    layout |-> layout, ss_hor |-> ss_hor, ss_ver |-> ss_ver ] ]

\* the syntax elements of the sequence headers parsed
SeqHdrSyntax ==
    [ profile : 0 .. 3, still_picture : {0, 1},
      reduced_still_picture_header : {0, 1},
      idc : { << 0 >>, << 257 >>, << 256 >>, << 1 >>, << 514, 0 >> },
      hbd : {0, 1}, hbd12 : {0, 1}, monochrome : {0, 1},
      color_description_present : {0, 1},
      pri : {"BT709"}, trc : {"SRGB", "UNKNOWN"}, mtrx : {"IDENTITY", "UNKNOWN"},
      ss_hor : {0, 1}, ss_ver : {0, 1},
      overrun : {FALSE}, tb : {GoodTb, BadTb} ]

\* a header parser is called on one of the inputs, in a context that has
\* parsed nothing
InitParse(inputs) ==
    /\ c = InitContext(Settings(FALSE, DAV1D_DECODEFRAMETYPE_ALL, 0, 0, 1))
    /\ ret = [val |-> 0, ev |-> {}, out |-> ZeroOut]
    /\ call = NoCall
    /\ hist = [n_attach |-> 0, published |-> 0]
    /\ feed = NoFeed
    /\ scan = NoScan
    /\ \E in \in inputs : parse = [pc |-> "called", in |-> in]

InitSeq ==
    InitParse({[fn |-> "parse_seq_hdr", e |-> e, strict |-> s] :
                  e \in SeqHdrSyntax, s \in BOOLEAN})

\* parse_seq_hdr runs and returns
SeqHdrParsed ==
    /\ parse.pc = "called"
    /\ parse.in.fn = "parse_seq_hdr"
    /\ parse' = [ pc |-> "returned", in |-> parse.in,
                  out |-> ParseSeqHdr(parse.in.e, parse.in.strict) ]
    /\ UNCHANGED <<c, ret, call, hist, feed, scan>>

NextSeq == SeqHdrParsed

SpecSeq == InitSeq /\ [][NextSeq]_vars

----------------------------------------------------------------------------
(* The envelope as the bitstream syntax defines it, read off the bytes *)

\* has_extension and has_length_field of the header byte b[1]
HasExtension(b)   == (b[1] \div 4) % 2
HasLengthField(b) == (b[1] \div 2) % 2

\* the index of the first byte of the length field
LengthAt(b) == 2 + HasExtension(b)

\* the length field ends inside the buffer: the index of its last byte, or 0
RECURSIVE LebLast(_, _)
LebLast(b, i) ==
    IF i > Len(b) THEN 0
    ELSE IF b[i] < 128 THEN i
    ELSE LebLast(b, i + 1)

\* the value of the length field that occupies b[i .. j]
RECURSIVE LebValue(_, _, _)
LebValue(b, i, j) ==
    (b[i] % 128) + (IF i < j THEN 128 * LebValue(b, i + 1, j) ELSE 0)

\* the bytes of the OBU that starts the buffer b: header bytes, bytes of
\* the length field, declared length; the whole buffer without length field
DeclaredSize(b) ==
    IF HasLengthField(b) = 0 THEN Len(b)
    ELSE LebLast(b, LengthAt(b)) + LebValue(b, LengthAt(b), LebLast(b, LengthAt(b)))

\* the buffer starts with an OBU whose length field tells more bytes than
\* the buffer holds after it
DeclaredTooLong(b) ==
    /\ b # << >>
    /\ HasLengthField(b) = 1
    /\ LebLast(b, LengthAt(b)) # 0
    /\ DeclaredSize(b) > Len(b)

\* the header of the OBU that starts the buffer b lies in b: the header
\* byte, the extension byte and a length field that ends
HeaderWhole(b) ==
    /\ Len(b) >= 1 + HasExtension(b)
    /\ HasLengthField(b) = 1 => LebLast(b, LengthAt(b)) # 0

\* b is a chain of OBUs, each with its header and its declared bytes
RECURSIVE WellFormedChain(_)
WellFormedChain(b) ==
    \/ b = << >>
    \/ /\ HeaderWhole(b)
       /\ DeclaredSize(b) <= Len(b)
       /\ WellFormedChain(SubSeq(b, DeclaredSize(b) + 1, Len(b)))

\* the index of the first byte of the payload of the OBU that starts b
PayloadAt(b) ==
    IF HasLengthField(b) = 1 THEN LebLast(b, LengthAt(b)) + 1 ELSE LengthAt(b)

\* the descriptor the payload of the OBU that starts b decodes to as a
\* sequence header, NULL if the payload is no sequence header or does not
\* lie in the OBU
SeqPayload(b) ==
    IF PayloadAt(b) > DeclaredSize(b) THEN NULL
    ELSE IF parse_seq_hdr([data |-> b, sz |-> Len(b)],
                          [ptr |-> PayloadAt(b) - 1, ptr_end |-> Len(b),
                           error |-> FALSE]).res < 0
    THEN NULL
    ELSE parse_seq_hdr([data |-> b, sz |-> Len(b)],
                       [ptr |-> PayloadAt(b) - 1, ptr_end |-> Len(b),
                        error |-> FALSE]).out

\* the payloads of the SEQ_HDR OBUs of the well-formed chain b, in order
RECURSIVE SeqHdrObus(_)
SeqHdrObus(b) ==
    IF b = << >> THEN << >>
    ELSE (IF (b[1] \div 8) % 16 = DAV1D_OBU_SEQ_HDR THEN << SeqPayload(b) >>
                                                    ELSE << >>)
         \o SeqHdrObus(SubSeq(b, DeclaredSize(b) + 1, Len(b)))

----------------------------------------------------------------------------
(* Properties *)

\* C1: a successful call returns the size of the OBU it consumed: header
\* bytes (1 or 2) + bytes of the length field + declared length when
\* has_length_field = 1, the whole input when it is 0; the value lies in
\* 1 .. in->sz, and once the caller has fed a buffer to its end the values
\* returned add up to the size of the buffer.
C1_ReturnsObuSize ==
    (feed.given # << >> /\ ret.val >= 0) =>
        /\ ret.val = DeclaredSize(feed.given)
        /\ ret.val >= 1
        /\ ret.val <= Len(feed.given)
        /\ feed.buf = << >> => feed.consumed = feed.total

\* a buffer of two OBUs with length fields has been consumed to its end
C1_Witness ==
    /\ ret.val = 1 + 1 + 0
    /\ feed.buf = << >>
    /\ HasLengthField(feed.given) = 1
    /\ feed.total = 2 * ret.val
    /\ feed.consumed = feed.total
    /\ feed.consumed = feed.total

\* C2: an OBU with has_length_field = 1 whose length exceeds the bytes that
\* remain makes the call return EINVAL before the dispatch on the type: the
\* context is as it was (sequence header, pending frame header, tile groups,
\* reference slots, metadata), but for the cached error properties, which
\* are those of the input.
C2_TooLongStep ==
    (feed'.given = feed.buf /\ DeclaredTooLong(feed.buf)) =>
        /\ ret'.val = DAV1D_ERR(EINVAL)
        /\ c' = [c EXCEPT !.cached_error_props = FeedProps]

C2_TooLongRejected == [][C2_TooLongStep]_vars

\* a too long OBU has been refused in the middle of a frame
C2_Witness ==
    /\ DeclaredTooLong(feed.given)
    /\ ret.val = DAV1D_ERR(EINVAL)
    /\ c.cached_error_props = FeedProps
    /\ c.seq_hdr # NULL /\ c.frame_hdr # NULL /\ c.n_tiles = 1
    /\ c.refs[0].p.p.data # 0
    /\ c.content_light # NULL


\* the tiles of the recorded tile groups: the sum of end - start + 1
RECURSIVE SumTiles(_)
SumTiles(tile) ==
    IF tile = << >> THEN 0
    ELSE Head(tile).end - Head(tile).start + 1 + SumTiles(Tail(tile))

\* the context as the switch on the type of the OBU in leaves it
AfterSwitch(cc, in) ==
    Dispatch(cc, ObuHeader(in, cc.strict_std_compliance), in.pl).c

\* a frame header that is not a show_existing_frame is pending and its tile
\* groups cover the cols * rows tiles of the frame
FrameComplete(cc) ==
    /\ cc.seq_hdr # NULL
    /\ cc.frame_hdr # NULL
    /\ cc.frame_hdr.show_existing_frame = 0
    /\ SumTiles(cc.tile) = cc.frame_hdr.tiling.cols * cc.frame_hdr.tiling.rows

\* the tile group tg names its tiles, and not those that come next
OutOfOrder(cc, tg) ==
    /\ tg.have_tile_pos = 1
    /\ tg.start # SumTiles(cc.tile) \/ tg.start > tg.end

\* a tile group OBU that is out of order while a frame of several tiles is
\* pending: the call returns EINVAL and no tile group is left
TileGroupRefused(cc, in) ==
    ( /\ in.data[1] = HdrByte(DAV1D_OBU_TILE_GRP, 0, 1)
      /\ cc.frame_hdr # NULL
      /\ cc.frame_hdr.tiling.cols * cc.frame_hdr.tiling.rows > 1
      /\ OutOfOrder(cc, in.pl.tg) ) =>
        /\ Run(cc, in).val = DAV1D_ERR(EINVAL)
        /\ Run(cc, in).c.tile = << >>
        /\ Run(cc, in).c.n_tiles = 0

\* C3 as the specification states it: a call that does not fail submits a
\* frame exactly if a frame header that is not a show_existing_frame is
\* pending with all its tiles.
C3_SubmitIffComplete ==
    \A in \in Inputs(c) :
        /\ Run(c, in).val >= 0 =>
              (Run(c, in).handoff = "submit" <=> FrameComplete(AfterSwitch(c, in)))
        /\ TileGroupRefused(c, in)

\* C3: a call that does not fail submits a frame exactly if a frame header
\* that is not a show_existing_frame is pending with all its tiles
\* (the sum of end - start + 1 over its tile groups is cols * rows) and the
\* decode_frame_type filter lets the frame through; a tile group that starts
\* elsewhere than at the number of tiles gathered, or after its end, discards
\* all tile groups and the call returns EINVAL.
C3_SubmitIffCompleteAndWanted ==
    \A in \in Inputs(c) :
        /\ Run(c, in).val >= 0 =>
              ( Run(c, in).handoff = "submit" <=>
                    /\ FrameComplete(AfterSwitch(c, in))
                    /\ ~DropFrame(AfterSwitch(c, in).frame_hdr, c.decode_frame_type) )
        /\ TileGroupRefused(c, in)

\* a frame of two tiles has been submitted, after a call had failed
C3_Witness ==
    /\ "submit" \in ret.ev
    /\ ret.out # ZeroOut
    /\ ret.out.p.frame_hdr.tiling.cols = 2
    /\ c.frame_hdr = NULL
    /\ c.cached_error_props # ZeroProps


\* C4 as the specification states it: after a call that returns the error
\* of a malformed bitstream no frame header is pending, and the sequence
\* header and the 8 reference slots are as they were before the call.
C4_ErrorStep ==
    ret'.val = DAV1D_ERR(EINVAL) =>
        /\ c'.frame_hdr = NULL
        /\ c'.seq_hdr = c.seq_hdr
        /\ c'.refs = c.refs

C4_ErrorLeavesNoHeader == [][C4_ErrorStep]_vars

\* the call on a sequence header OBU that decodes to q
SeqHdrIn(q) == Obu(DAV1D_OBU_SEQ_HDR, 1, 1, [NoPayload EXCEPT !.seq = q])

\* the members of Dav1dSequenceHeader that precede operating_parameter_info
BeforeOpi(q) ==
    << q.max_width, q.max_height, q.num_operating_points, q.operating_points >>

C6_SameSeqHdrAgain ==
    c.seq_hdr # NULL =>
        /\ Run(c, SeqHdrIn(c.seq_hdr)).ev = {"seq_hdr"}
        /\ Call(c, SeqHdrIn(c.seq_hdr)).frame_flags = c.frame_flags
        /\ Call(c, SeqHdrIn(c.seq_hdr)).refs = Retired(c.refs, FALSE, TRUE)
        /\ Call(c, SeqHdrIn(c.seq_hdr)).frame_hdr = c.frame_hdr
        /\ Call(c, SeqHdrIn(c.seq_hdr)).content_light = c.content_light
        /\ Call(c, SeqHdrIn(c.seq_hdr)).mastering_display = c.mastering_display
        /\ Call(c, SeqHdrIn(c.seq_hdr)).itut_t35 = c.itut_t35

\* the sequence header has been parsed again while slots are filled, a
\* frame header is pending and HDR metadata is cached
C6_Witness ==
    /\ ret.ev = {"seq_hdr"}
    /\ ret.val > 0
    /\ c.refs[0].p.p.data # 0
    /\ c.frame_hdr # NULL
    /\ c.content_light # NULL
    /\ "NEW_SEQUENCE" \in c.frame_flags

\* the OBU types that carry a frame header
FrameHdrTypes ==
    { HdrByte(DAV1D_OBU_FRAME_HDR, 0, 1), HdrByte(DAV1D_OBU_FRAME, 0, 1),
      HdrByte(DAV1D_OBU_REDUNDANT_FRAME_HDR, 0, 1) }

\* C7: a FRAME_HDR, FRAME or REDUNDANT_FRAME_HDR that comes before any
\* sequence header makes the call return EINVAL and creates no frame header;
\* a frame header is pending only while a sequence header exists.
C7_FrameHdrNeedsSeqHdr ==
    /\ c.frame_hdr # NULL => c.seq_hdr # NULL
    /\ \A in \in Inputs(c) :
          (in.data[1] \in FrameHdrTypes /\ c.seq_hdr = NULL) =>
              /\ Run(c, in).val = DAV1D_ERR(EINVAL)
              /\ Run(c, in).handoff = "none"
              /\ Run(c, in).c.frame_hdr = NULL

\* a frame header OBU has been refused for want of a sequence header
C7_Witness ==
    /\ c.seq_hdr = NULL
    /\ "frame_hdr" \in ret.ev
    /\ ret.val = DAV1D_ERR(EINVAL)
    /\ c.frame_hdr = NULL


\* the call on a frame header OBU that shows the frame of slot r
ShowExistingIn(r) ==
    Obu(DAV1D_OBU_FRAME_HDR, 1, 1, [NoPayload EXCEPT !.fh = ShowExisting(r)])

\* C10: a show_existing_frame of a slot r that holds a KEY frame leaves in
\* every other slot the picture of r (with its frame and sequence headers),
\* the CDF of r and the segmentation map of r; the picture, CDF and
\* segmentation map of r itself are as before, and no frame header is
\* pending.
C10_KeyFanOut ==
    \A r \in ExistingIdx :
        ( /\ c.seq_hdr # NULL
          /\ c.refs[r].p.p.data # 0
          /\ c.refs[r].p.p.frame_hdr.frame_type = "KEY" ) =>
            /\ Run(c, ShowExistingIn(r)).val > 0
            /\ \A i \in Slots :
                  /\ Call(c, ShowExistingIn(r)).refs[i].p.p = c.refs[r].p.p
                  /\ Call(c, ShowExistingIn(r)).cdf[i] = c.cdf[r]
                  /\ Call(c, ShowExistingIn(r)).refs[i].segmap = c.refs[r].segmap
            /\ Call(c, ShowExistingIn(r)).frame_hdr = NULL

\* a key frame decoded under an earlier sequence header has been shown from
\* its slot and fills every slot
C10_Witness ==
    /\ "emit" \in ret.ev
    /\ ret.out.p.frame_hdr.frame_type = "KEY"
    /\ ret.out.p.seq_hdr # c.seq_hdr
    /\ \A i \in Slots : c.refs[i].p.p = ret.out.p /\ c.cdf[i] = c.cdf[0]
    /\ c.frame_hdr = NULL


\* the ring slot that the call ending in this step has taken
Visited == IF call # NoCall THEN call.next ELSE c.frame_thread.next

\* a call ends in this step that has attached a picture to the ring
Attaches == hist'.n_attach = hist.n_attach + 1

\* C8: with several frame contexts the pictures are published in the order
\* in which they were attached to the ring, and the picture a call
\* publishes is the one that was attached to its ring slot at the previous
\* visit of the slot.
C8_PublishStep ==
    /\ hist'.published >= hist.published
    /\ Attaches =>
          /\ c'.frame_thread.out_delayed[Visited].stamp = hist'.n_attach
          /\ ret'.out \in {ZeroOut, c.frame_thread.out_delayed[Visited]}
          /\ ret'.out # ZeroOut =>
                /\ ret'.out.stamp > hist.published
                /\ hist'.published = ret'.out.stamp

C8_PublishedInAttachOrder == [][C8_PublishStep]_vars

\* the third picture attached has been published, after the first
C8_Witness ==
    /\ ret.out.stamp = 3
    /\ hist.published = 3
    /\ hist.n_attach = 5
    /\ c.frame_thread.out_delayed[0].stamp = 5
    /\ c.frame_thread.out_delayed[1].stamp = 4

\* C9: the error of a worker is surfaced once: the visit of its ring slot
\* that finds retval non-zero caches it as cached_error with the properties
\* of the delayed picture of the slot, resets retval to 0 and drops the
\* delayed picture without publishing it; a visit that finds retval zero
\* caches nothing.
C9_VisitStep ==
    Attaches =>
        IF c.fc[Visited].retval # 0
        THEN /\ c'.cached_error = c.fc[Visited].retval
             /\ c'.cached_error_props = c.frame_thread.out_delayed[Visited].m
             /\ c'.fc[Visited].retval = 0
             /\ ret'.out = ZeroOut
             /\ hist'.published = hist.published
        ELSE /\ c'.cached_error = c.cached_error
             /\ c'.cached_error_props = c.cached_error_props

C9_WorkerErrorOnce == [][C9_VisitStep]_vars

\* the error of a worker has been cached with the properties of its
\* picture, and a later visit has published a picture
C9_Witness ==
    /\ c.cached_error = DAV1D_ERR(EINVAL)
    /\ c.cached_error_props = 2
    /\ \A i \in 0 .. (c.n_fc - 1) : c.fc[i].retval = 0
    /\ ret.out # ZeroOut
    /\ ret.out.stamp > 2


\* frames of the types the decode_frame_type filter can reject, with
\* several patterns of refresh_frame_flags
SkipInputs ==
    { Obu(DAV1D_OBU_FRAME, 1, 1,
          [NoPayload EXCEPT !.fh = FrameHdr(t, 1, 1, f, 1, 0, 64, 64)]) :
        t \in {"INTER", "INTRA"}, f \in {0, 6, 129} }

\* the call on in, which has given r, where d is the context after the
\* switch on the type: the filter rejects the complete frame of d
SkipsFrame(cc, in, r, d) ==
    ( FrameComplete(d) /\ DropFrame(d.frame_hdr, cc.decode_frame_type) ) =>
        /\ \A i \in Slots :
              IF Bit(d.frame_hdr.refresh_frame_flags, i) = 1
              THEN /\ r.c.refs[i].p.p.frame_hdr = d.frame_hdr
                   /\ r.c.refs[i].p.p.seq_hdr = d.seq_hdr
                   /\ r.c.refs[i].p.p.data = 0
              ELSE r.c.refs[i] = cc.refs[i]
        /\ r.c.frame_hdr = NULL
        /\ r.val = in.sz
        /\ r.handoff = "none"
        /\ "submit" \notin r.ev

\* C11: when the decode_frame_type filter rejects a complete frame, the
\* slots whose bit is set in refresh_frame_flags, and no others, take the
\* pending frame header and the sequence header and hold no pixel data;
\* the slots whose bit is clear are as before; no frame header is pending,
\* the call returns the size of the OBU and no frame is submitted.
C11_SkipHeadersOnly ==
    \A in \in Inputs(c) \cup SkipInputs :
        SkipsFrame(c, in, Run(c, in), AfterSwitch(c, in))

\* an inter frame has been skipped after a key frame was decoded: slot 0
\* holds its headers alone, slot 1 still the key frame
C11_Witness ==
    /\ "skip" \in ret.ev
    /\ ret.val > 0
    /\ c.refs[0].p.p.data = 0
    /\ c.refs[0].p.p.frame_hdr = HdrInter
    /\ c.refs[0].p.p.seq_hdr = c.seq_hdr
    /\ c.refs[1].p.p.data # 0
    /\ c.refs[1].p.p.frame_hdr = HdrKey
    /\ c.frame_hdr = NULL


\* the call on a show_existing_frame of slot r, which holds a frame with
\* the header hdr, has given run
ExistingFiltered(cc, hdr, run) ==
    /\ "skip" \in run.ev <=>
          \/ hdr.frame_type \in {"INTER", "SWITCH"} /\
             cc.decode_frame_type > DAV1D_DECODEFRAMETYPE_REFERENCE
          \/ hdr.frame_type = "INTRA" /\
             cc.decode_frame_type > DAV1D_DECODEFRAMETYPE_INTRA
    /\ "skip" \in run.ev =>
          /\ run.handoff = "none"
          /\ run.val > 0
          /\ run.c.refs = cc.refs
          /\ run.c.cdf = cc.cdf

\* C12: a show_existing_frame of a slot that holds an INTER or SWITCH
\* frame is dropped, not emitted, exactly if decode_frame_type is above
\* REFERENCE; of a slot that holds an INTRA frame exactly if it is above
\* INTRA; of a slot that holds a KEY frame never.  A dropped
\* show_existing_frame leaves every reference slot as it was.
C12_ExistingFiltered ==
    \A r \in FilterIdx :
        (c.seq_hdr # NULL /\ c.refs[r].p.p.frame_hdr # NULL) =>
            ExistingFiltered(c, c.refs[r].p.p.frame_hdr, Run(c, ShowExistingIn(r)))

\* with decode_frame_type INTRA, a show_existing_frame of the skipped inter
\* frame of slot 0 has been dropped, while slot 1 holds a decoded intra
\* frame and slot 2 a decoded key frame
C12_Witness ==
    /\ c.decode_frame_type = DAV1D_DECODEFRAMETYPE_INTRA
    /\ ret.ev = {"frame_hdr", "skip"}
    /\ c.tile = << >>
    /\ ret.out = ZeroOut
    /\ c.refs[0].p.p.frame_hdr = HdrInter
    /\ c.refs[1].p.p.frame_hdr = HdrIntra /\ c.refs[1].p.p.data # 0
    /\ c.refs[2].p.p.frame_hdr = HdrKey /\ c.refs[2].p.p.data # 0


\* the OBU with header h lies outside the temporal or the spatial layers
\* that the operating point idc selects
OutOfLayer(h, idc) ==
    Bit(idc, h.temporal_id) = 0 \/ Bit(idc, h.spatial_id + 8) = 0

\* the call, which has given r, has consumed the OBU and done nothing else
SilentlyConsumed(cc, in, r) ==
    /\ r.val = in.sz
    /\ r.handoff = "none"
    /\ r.c = cc

\* the layer filter has let the SEQ_HDR or TD with header h through
NeverDropped(cc, in, h, r) ==
    /\ (h.type = DAV1D_OBU_SEQ_HDR /\ in.pl.seq # NULL) =>
          /\ "seq_hdr" \in r.ev
          /\ r.c.seq_hdr = in.pl.seq
    /\ h.type = DAV1D_OBU_TD =>
          r.c.frame_flags = cc.frame_flags \cup {"NEW_TEMPORAL_UNIT"}

LayerSkipAsStated(cc, in, h, r) ==
    /\ ( /\ cc.operating_point_idc # 0
         /\ h.type \notin {DAV1D_OBU_SEQ_HDR, DAV1D_OBU_TD}
         /\ OutOfLayer(h, cc.operating_point_idc) ) => SilentlyConsumed(cc, in, r)
    /\ NeverDropped(cc, in, h, r)

LayerSkipWithExtension(cc, in, h, r) ==
    /\ ( /\ cc.operating_point_idc # 0
         /\ h.type \notin {DAV1D_OBU_SEQ_HDR, DAV1D_OBU_TD}
         /\ h.has_extension = 1
         /\ OutOfLayer(h, cc.operating_point_idc) ) => SilentlyConsumed(cc, in, r)
    /\ NeverDropped(cc, in, h, r)

\* C13 as the specification states it: while operating_point_idc is not 0,
\* an OBU that is neither SEQ_HDR nor TD and whose temporal_id or
\* spatial_id has its bit clear in the idc is consumed: the call returns
\* the size of the OBU and the context is as before.  SEQ_HDR and TD OBUs
\* are never dropped.
C13_LayerSkip ==
    \A in \in InputsSel(c) :
        LayerSkipAsStated(c, in, ObuHeader(in, c.strict_std_compliance), Run(c, in))

\* C13: while operating_point_idc is not 0, an OBU that is neither SEQ_HDR
\* nor TD, that carries an extension header, and whose temporal_id or
\* spatial_id has its bit clear in the idc is consumed: the call returns
\* the size of the OBU and the context is as before.  SEQ_HDR and TD OBUs
\* are never dropped.
C13_LayerSkipOfExtended ==
    \A in \in InputsSel(c) :
        LayerSkipWithExtension(c, in, ObuHeader(in, c.strict_std_compliance), Run(c, in))

\* an OBU with an extension header has been dropped under the operating
\* point 0x101, after a key frame of the layers 0 had been decoded
C13_Witness ==
    /\ c.operating_point_idc = 257
    /\ ret.val = 3 + 1
    /\ ret.ev = {}
    /\ "NEW_TEMPORAL_UNIT" \notin c.frame_flags
    /\ c.refs[0].p.p.data # 0
    /\ c.refs[0].p.p.frame_hdr.temporal_id = 0


\* the call on in, an OBU that carries a frame header, has given r: a
\* header that is parsed and is larger than the limit is refused
TooLargeRefused(cc, in, r) ==
    ( /\ in.data[1] \in FrameHdrTypes
      /\ cc.seq_hdr # NULL
      /\ in.pl.fh # NULL
      /\ cc.frame_size_limit # 0
      /\ in.pl.fh.width1 * in.pl.fh.height > cc.frame_size_limit ) =>
        /\ r.val = DAV1D_ERR(ERANGE)
        /\ r.handoff = "none"
        /\ "submit" \notin r.ev
        /\ r.c.frame_hdr = NULL
        /\ r.c.tile = << >>
        /\ r.c.n_tiles = 0
        /\ r.c.seq_hdr = cc.seq_hdr
        /\ r.c.refs = cc.refs

\* C16: with a frame size limit set, a frame header whose upscaled width
\* times height exceeds the limit makes the call return ERANGE: no frame
\* header is pending, no tile group is recorded, no frame is submitted, and
\* the sequence header and the reference slots are as before.
C16_FrameSizeLimit ==
    \A in \in InputsSel(c) : TooLargeRefused(c, in, Run(c, in))

\* a frame larger than the limit has been refused while the slots hold a
\* decoded frame
C16_Witness ==
    /\ ret.val = DAV1D_ERR(ERANGE)
    /\ c.frame_size_limit = 192 * 64
    /\ c.frame_hdr = NULL
    /\ c.tile = << >>
    /\ c.seq_hdr # NULL
    /\ c.refs[0].p.p.data # 0


\* C17 as the specification states it: every tile group recorded for the
\* pending frame header has start <= end < tile_count, where tile_count is
\* tiling.cols * tiling.rows of the header, and so the number of tiles
\* gathered never exceeds tile_count.
C17_TileGroupsInRange ==
    c.frame_hdr # NULL =>
        /\ \A k \in 1 .. Len(c.tile) :
              /\ c.tile[k].start <= c.tile[k].end
              /\ c.tile[k].end < c.frame_hdr.tiling.cols * c.frame_hdr.tiling.rows
        /\ c.n_tiles <= c.frame_hdr.tiling.cols * c.frame_hdr.tiling.rows


\* the recorded tile groups follow one another from tile 0 on
GapFree(tile) ==
    \A k \in 1 .. Len(tile) :
        tile[k].start = (IF k = 1 THEN 0 ELSE tile[k - 1].end + 1)

\* the call on a tile group OBU that is read whole as the group t, while a
\* frame header is pending, has given r: a group that starts after its end
\* or elsewhere than at the tiles gathered is refused with all the others
DisorderRefused(cc, in, t, r) ==
    ( /\ in.data[1] = HdrByte(DAV1D_OBU_TILE_GRP, 0, 1)
      /\ cc.frame_hdr # NULL
      /\ ~in.pl.tg.overrun
      /\ t.start > t.end \/ t.start # SumTiles(cc.tile) ) =>
        /\ r.val = DAV1D_ERR(EINVAL)
        /\ r.c.tile = << >>
        /\ r.c.n_tiles = 0

\* C18: while a frame header is pending the recorded tile groups are a
\* prefix without gaps: the first starts at 0, each next one at the end of
\* the one before + 1, and n_tiles is the sum of end - start + 1 over
\* them; a tile group with start > end or with a start that is not the
\* number of tiles gathered makes the call fail and discards every
\* recorded group (n_tiles is 0 again).
C18_TileGroupsGapFree ==
    /\ c.frame_hdr # NULL =>
          /\ GapFree(c.tile)
          /\ c.n_tiles = SumTiles(c.tile)
    /\ \A in \in InputsSel(c) :
          DisorderRefused(c, in, parse_tile_hdr(c.frame_hdr, in.pl.tg), Run(c, in))

\* two tile groups of a frame of three tiles are recorded, after a call
\* had failed
C18_Witness ==
    /\ c.frame_hdr = Hdr3
    /\ Len(c.tile) = 2
    /\ c.tile[1] = [start |-> 0, end |-> 0]
    /\ c.tile[2] = [start |-> 1, end |-> 1]
    /\ c.n_tiles = 2
    /\ ret.val > 0
    /\ c.cached_error_props # ZeroProps


\* the slot holds a frame header
Populated(ref) == ref.p.p.frame_hdr # NULL

\* C19: a reference slot that holds a frame header keeps one until it is
\* replaced: a call empties a slot only when a SEQ_HDR that differs from
\* the current sequence header before operating_parameter_info flushes
\* the whole table; a call that skips a frame or that shows an existing
\* frame (the KEY fan-out) leaves a frame header in every slot that held
\* one and in every slot it changes.
C19_SlotStep ==
    \A i \in Slots :
        /\ (Populated(c.refs[i]) /\ ~Populated(c'.refs[i])) =>
              /\ "NEW_SEQUENCE" \in ret'.ev
              /\ c.seq_hdr # NULL
              /\ BeforeOpi(c'.seq_hdr) # BeforeOpi(c.seq_hdr)
              /\ \A j \in Slots : c'.refs[j] = ZeroRef
        /\ ("skip" \in ret'.ev \/ "emit" \in ret'.ev) =>
              /\ Populated(c.refs[i]) => Populated(c'.refs[i])
              /\ c'.refs[i] # c.refs[i] => Populated(c'.refs[i])

C19_SlotsStayPopulated == [][C19_SlotStep]_vars

\* with key frames only decoded, a key frame has been shown from its slot
\* and fills every slot, the one of a skipped inter frame too
C19_Witness ==
    /\ c.decode_frame_type = DAV1D_DECODEFRAMETYPE_KEY
    /\ "emit" \in ret.ev
    /\ \A i \in Slots : Populated(c.refs[i]) /\ c.refs[i].p.p.data # 0
    /\ "NEW_OP_PARAMS_INFO" \in c.frame_flags


\* C14 as the specification states it: dav1d_parse_sequence_header finds
\* the first SEQ_HDR OBU of the buffer: when it returns 0, out is the
\* descriptor of the first SEQ_HDR, whatever OBUs follow it.
C14_FirstSeqHdr ==
    (scan.pc = "done" /\ scan.ret = 0) =>
        /\ SeqHdrObus(scan.data) # << >>
        /\ scan.out = SeqHdrObus(scan.data)[1]

\* C14: dav1d_parse_sequence_header parses every SEQ_HDR OBU of the buffer
\* into out: when it returns 0, the buffer is a chain of whole OBUs and out
\* is the descriptor of the last SEQ_HDR of the buffer.
C14_LastSeqHdr ==
    (scan.pc = "done" /\ scan.ret = 0) =>
        /\ WellFormedChain(scan.data)
        /\ SeqHdrObus(scan.data) # << >>
        /\ scan.out = SeqHdrObus(scan.data)[Len(SeqHdrObus(scan.data))]

\* a buffer of two sequence headers, SeqA and then SeqB, has been scanned
C14_Witness ==
    /\ scan.pc = "done"
    /\ scan.ret = 0
    /\ SeqHdrObus(scan.data) = << SeqA, SeqB >>
    /\ scan.out = SeqB
    /\ scan.n = 2

\* C15: dav1d_parse_sequence_header ends on every input, after at most one
\* turn of its loop per byte.  It returns ENOENT exactly if the buffer is
\* a well-formed chain of OBUs without SEQ_HDR; 0 exactly if it is a
\* well-formed chain with a SEQ_HDR, each SEQ_HDR of which holds a
\* sequence header; and EINVAL otherwise: a length that exceeds the bytes
\* that remain, a read past the end, or a malformed SEQ_HDR.
C15_ScanResult ==
    /\ scan.pc # "idle" => scan.n <= scan.sz
    /\ scan.pc = "loop" => scan.gb.ptr < scan.sz
    /\ scan.pc = "done" =>
          /\ scan.ret \in {0, DAV1D_ERR(ENOENT), DAV1D_ERR(EINVAL)}
          /\ scan.ret = DAV1D_ERR(ENOENT) <=>
                (WellFormedChain(scan.data) /\ SeqHdrObus(scan.data) = << >>)
          /\ scan.ret = 0 <=>
                /\ WellFormedChain(scan.data)
                /\ SeqHdrObus(scan.data) # << >>
                /\ \A k \in 1 .. Len(SeqHdrObus(scan.data)) :
                      SeqHdrObus(scan.data)[k] # NULL

\* a buffer with a sequence header and then an OBU whose length exceeds
\* the bytes that remain has been refused at the second turn of the loop
C15_Witness ==
    /\ scan.pc = "done"
    /\ scan.ret = DAV1D_ERR(EINVAL)
    /\ scan.out = SeqA
    /\ scan.n = 2
    /\ ~WellFormedChain(scan.data)

\* C20: frame and sequence headers are not written once they are published.
\* The frame header is written into the buffer of c->frame_hdr_ref, and no
\* reference slot ever holds that buffer: the context is its only holder
\* whenever a frame header is parsed.  A call that has attached the header
\* to reference slots (skip) or has handed it to dav1d_submit_frame leaves
\* c->frame_hdr_ref NULL, so that the next frame header goes to a new
\* buffer; the header of a populated slot lives in another buffer than the
\* context's.  A SEQ_HDR is parsed into a new buffer: after the call no
\* slot holds the buffer of c->seq_hdr_ref.
C20_HeadersImmutable ==
    /\ \A i \in Slots :
          /\ c.refs[i].frame_hdr_ref # Here
          /\ Populated(c.refs[i]) =>
                /\ c.refs[i].frame_hdr_ref = Elsewhere
                /\ c.refs[i].seq_hdr_ref \in {Here, Elsewhere}
    /\ c.frame_hdr # NULL => c.frame_hdr_ref = Here
    /\ (call = NoCall /\ ("skip" \in ret.ev \/ "submit" \in ret.ev)) =>
          c.frame_hdr_ref = NULL
    /\ (call = NoCall /\ "seq_hdr" \in ret.ev) =>
          /\ c.seq_hdr_ref = Here
          /\ \A i \in Slots : c.refs[i].seq_hdr_ref # Here

\* slot 0 holds the headers of a skipped frame and slot 1 a decoded frame,
\* both with the sequence header of that time; a SEQ_HDR has come since,
\* and the context has parsed another frame header into its buffer
C20_Witness ==
    /\ c.refs[0].p.p.data = 0
    /\ c.refs[0].p.p.frame_hdr = HdrInter
    /\ c.refs[0].frame_hdr_ref = Elsewhere
    /\ c.refs[0].seq_hdr_ref = Elsewhere
    /\ c.refs[1].p.p.data # 0
    /\ c.refs[1].seq_hdr_ref = Elsewhere
    /\ c.seq_hdr_ref = Here
    /\ c.frame_hdr_ref = Here
    /\ c.frame_hdr # NULL
    /\ c.frame_hdr # HdrInter
    /\ "frame_hdr" \in ret.ev

\* C21 as the specification states it: after a show_existing_frame has
\* been emitted, the context holds none of the metadata that was attached to
\* the picture: no T.35 entry, no content-light and no mastering-display
\* descriptor.
C21_MetadataRelinquished ==
    (call = NoCall /\ "emit" \in ret.ev) =>
        /\ c.itut_t35 = << >>
        /\ ret.out.content_light # NULL => c.content_light = NULL
        /\ ret.out.mastering_display # NULL => c.mastering_display = NULL

\* C21: after a show_existing_frame has been emitted, the picture carries
\* the T.35 entries, the content-light and the mastering-display descriptor
\* the context held; the context holds no T.35 entry any more, and it
\* still holds the content-light and mastering-display descriptors.
C21_T35Relinquished ==
    (call = NoCall /\ "emit" \in ret.ev) =>
        /\ c.itut_t35 = << >>
        /\ c.content_light = ret.out.content_light
        /\ c.mastering_display = ret.out.mastering_display

\* an existing frame has been emitted with a T.35 entry and both HDR
\* descriptors, which the context still holds
C21_Witness ==
    /\ call = NoCall
    /\ "emit" \in ret.ev
    /\ Len(ret.out.itut_t35) = 1
    /\ ret.out.content_light # NULL
    /\ ret.out.mastering_display # NULL
    /\ c.content_light # NULL
    /\ c.mastering_display # NULL
    /\ c.itut_t35 = << >>

\* a frame header OBU of the given type whose payload decodes to f
HdrObuOf(type, f) == Obu(type, 1, 1, [NoPayload EXCEPT !.fh = f])

\* C22: a REDUNDANT_FRAME_HDR that comes while a frame header is pending is
\* not parsed: the call leaves the pending frame header and the recorded
\* tile groups as they were.  One that comes while no frame header is
\* pending does what a FRAME_HDR with the same payload does: the same
\* context, return value and events.
C22_RedundantFrameHdr ==
    \A f \in {HdrKey, HdrInter, ShowExisting(0), NULL} :
        /\ c.frame_hdr # NULL =>
              /\ "frame_hdr" \notin Run(c, HdrObuOf(DAV1D_OBU_REDUNDANT_FRAME_HDR, f)).ev
              /\ Call(c, HdrObuOf(DAV1D_OBU_REDUNDANT_FRAME_HDR, f)).frame_hdr = c.frame_hdr
              /\ Call(c, HdrObuOf(DAV1D_OBU_REDUNDANT_FRAME_HDR, f)).tile = c.tile
              /\ Call(c, HdrObuOf(DAV1D_OBU_REDUNDANT_FRAME_HDR, f)).n_tiles = c.n_tiles
        /\ c.frame_hdr = NULL =>
              Run(c, HdrObuOf(DAV1D_OBU_REDUNDANT_FRAME_HDR, f)) =
                  Run(c, HdrObuOf(DAV1D_OBU_FRAME_HDR, f))

\* a redundant frame header (the only OBU of 4 bytes) has come after the
\* first tile group of a frame of two tiles, and has changed nothing
C22_Witness ==
    /\ call = NoCall
    /\ ret.ev = {}
    /\ ret.val = 4
    /\ c.frame_hdr = HdrInter
    /\ Len(c.tile) = 1
    /\ c.n_tiles = 1
    /\ c.frame_flags = {"NEW_SEQUENCE"}

\* the T.35 messages of the claim: a country code, an extension byte
\* after 0xFF only, one to three payload bytes (a zero byte and the byte
\* 0x80 among them), the trailing byte 0x80 and zero bytes
T35Payloads ==
    { << 18, 52, 86 >>, << 128, 0 >>, << 0 >>, << 128 >>, << 255 >> }

T35Entry(country_code, ext, payload) ==
    [ country_code |-> country_code,
      country_code_extension_byte |-> IF country_code = 255 THEN ext ELSE 0,
      payload_size |-> Len(payload),
      payload |-> payload ]

C29_Append ==
    \A country_code \in {181, 255}, z \in {0, 2} :
        \A ext \in IF country_code = 255 THEN {0, 1} ELSE {0}, payload \in T35Payloads :
            Run(c, MetaObu(T35(T35Bytes(country_code, ext, payload, z)))).c.itut_t35
                = Append(c.itut_t35, T35Entry(country_code, ext, payload))

C29_Step ==
    c'.itut_t35 # c.itut_t35 =>
        \/ /\ Len(c'.itut_t35) = Len(c.itut_t35) + 1
           /\ SubSeq(c'.itut_t35, 1, Len(c.itut_t35)) = c.itut_t35
        \/ /\ c'.itut_t35 = << >>
           /\ "emit" \in ret'.ev \/ "submit" \in ret'.ev

C23_SeqHdrInvariants ==
    (parse.pc = "returned" /\ parse.in.fn = "parse_seq_hdr" /\ parse.out.res = 0) =>
        /\ parse.out.hdr.reduced_still_picture_header = 1 =>
              parse.out.hdr.still_picture = 1
        /\ parse.out.hdr.layout = "I444" <=>
              (parse.out.hdr.ss_hor = 0 /\ parse.out.hdr.ss_ver = 0)
        /\ \A i \in 1 .. parse.out.hdr.num_operating_points :
              \/ parse.out.hdr.operating_points[i].idc = 0
              \/ /\ parse.out.hdr.operating_points[i].idc % 256 # 0
                 /\ (parse.out.hdr.operating_points[i].idc \div 256) % 16 # 0
        /\ parse.out.hdr.profile = 1 => parse.out.hdr.monochrome = 0
        /\ (parse.out.hdr.profile = 2 /\ parse.out.hdr.layout = "I444") =>
              parse.out.hdr.hbd = 2

\* a profile-2 header of 12 bits with sRGB colours and the layout I444,
\* whose operating points are 0x202 and 0, has been accepted
C23_Witness ==
    /\ parse.pc = "returned"
    /\ parse.in.fn = "parse_seq_hdr"
    /\ parse.out.res = 0
    /\ parse.out.hdr.profile = 2
    /\ parse.out.hdr.hbd = 2
    /\ parse.out.hdr.layout = "I444"
    /\ parse.out.hdr.mtrx = "IDENTITY"
    /\ parse.out.hdr.num_operating_points = 2
    /\ parse.out.hdr.operating_points[1].idc = 514

\* ---------------------------------------------------------------------
\* parse_frame_hdr, by the syntax elements and the context fields each of
\* its parts reads
\* ---------------------------------------------------------------------

INT_MAX == 2147483647

INT_MIN == (-INT_MAX) - 1

\* (unsigned) x of a 32-bit int, moved back into the range of int with the
\* order kept (x ^ INT_MIN): (unsigned) a < (unsigned) b exactly if
\* ToUnsigned(a) < ToUnsigned(b)
ToUnsigned(x) == IF x < 0 THEN x - INT_MIN ELSE x + INT_MIN

\* the order-hint difference poc0 - poc1 wrapped to a signed value of
\* n_bits bits: (diff & (mask - 1)) - (diff & mask), mask = 1 << (n_bits - 1)
get_poc_diff(order_hint_n_bits, poc0, poc1) ==
    IF order_hint_n_bits = 0 THEN 0
    ELSE (((poc0 - poc1) % Pow2(order_hint_n_bits - 1))
          - (IF ((poc0 - poc1) % Pow2(order_hint_n_bits)) >= Pow2(order_hint_n_bits - 1)
             THEN Pow2(order_hint_n_bits - 1) ELSE 0))

\* for (j = 0; j < 8; j++) if (hint >= latest_offset) { latest_offset = hint;
\* refidx = j; }: the last slot from j on with the largest hint that is at
\* least latest_offset, or refidx if there is none
RECURSIVE LatestFrom(_, _, _, _)
LatestFrom(hint, j, latest_offset, refidx) ==
    IF j = 8 THEN refidx
    ELSE IF hint[j] >= latest_offset
         THEN LatestFrom(hint, j + 1, hint[j], j)
         ELSE LatestFrom(hint, j + 1, latest_offset, refidx)

\* for (j = 0; j < 8; j++) if (hint < earliest_offset) { earliest_offset =
\* hint; refidx = j; }: the first slot from j on with the smallest hint below
\* earliest_offset, or refidx if there is none
RECURSIVE EarliestFrom(_, _, _, _)
EarliestFrom(hint, j, earliest_offset, refidx) ==
    IF j = 8 THEN refidx
    ELSE IF hint[j] < earliest_offset
         THEN EarliestFrom(hint, j + 1, hint[j], j)
         ELSE EarliestFrom(hint, j + 1, earliest_offset, refidx)

\* the hints of the slots as unsigned values
UnsignedHints(frame_offset) == [j \in 0 .. 7 |-> ToUnsigned(frame_offset[j])]

BackwardLatestOfAll(frame_offset) == LatestFrom(frame_offset, 0, INT_MIN, -1)

\* the search for refidx[6]: latest_offset starts at 0, the compare is signed
BackwardLatest(frame_offset) == LatestFrom(frame_offset, 0, 0, -1)

\* the searches for refidx[4] and refidx[5]: unsigned, below UINT8_MAX
BackwardEarliest(frame_offset) ==
    EarliestFrom(UnsignedHints(frame_offset), 0, ToUnsigned(255), -1)

\* the searches of the last loop: unsigned, at least ~UINT8_MAX
ForwardLatest(frame_offset) ==
    LatestFrom(UnsignedHints(frame_offset), 0, ToUnsigned(-256), -1)

\* frame_offset[refidx] = INT_MIN; frame_offset[-1] takes the unused stores
Used(frame_offset, refidx) == [frame_offset EXCEPT ![refidx] = INT_MIN]

\* the loop for (i = 1; i < 7; i++) over the positions still negative
RECURSIVE FillRefidx(_, _, _, _)
FillRefidx(refidx, frame_offset, i, earliest_ref) ==
    IF i = 7 THEN refidx
    ELSE IF refidx[i] < 0
         THEN FillRefidx(
                  [refidx EXCEPT ![i] =
                      IF ForwardLatest(frame_offset) >= 0
                      THEN ForwardLatest(frame_offset) ELSE earliest_ref],
                  Used(frame_offset, ForwardLatest(frame_offset)),
                  i + 1, earliest_ref)
         ELSE FillRefidx(refidx, frame_offset, i + 1, earliest_ref)

\* the two searches of the loop for (i = 4; i < 6; i++), then the last loop
ShortRefidx45(refidx0, refidx3, refidx6, frame_offset, earliest_ref) ==
    FillRefidx(
        [i \in 0 .. 6 |->
            CASE i = 0 -> refidx0
              [] i = 3 -> refidx3
              [] i = 4 -> BackwardEarliest(frame_offset)
              [] i = 5 -> BackwardEarliest(
                              Used(frame_offset, BackwardEarliest(frame_offset)))
              [] i = 6 -> refidx6
              [] OTHER -> -1],
        Used(Used(frame_offset, BackwardEarliest(frame_offset)),
             BackwardEarliest(Used(frame_offset, BackwardEarliest(frame_offset)))),
        1, earliest_ref)

\* the indices at which the last loop stores INT_MIN into frame_offset
RECURSIVE FillStores(_, _, _)
FillStores(refidx, frame_offset, i) ==
    IF i = 7 THEN {}
    ELSE IF refidx[i] < 0
         THEN { ForwardLatest(frame_offset) }
                  \cup FillStores(refidx,
                                  Used(frame_offset, ForwardLatest(frame_offset)),
                                  i + 1)
         ELSE FillStores(refidx, frame_offset, i + 1)

\* the indices of all the stores frame_offset[...] = INT_MIN of the
\* derivation: those for refidx[0], refidx[3] and refidx[6], those of the two
\* searches for refidx[4] and refidx[5], and those of the last loop
ShortStores(refidx0, refidx3, refidx6, frame_offset) ==
    { refidx0, refidx3, refidx6,
      BackwardEarliest(frame_offset),
      BackwardEarliest(Used(frame_offset, BackwardEarliest(frame_offset))) }
        \cup FillStores(
            [i \in 0 .. 6 |->
                CASE i = 0 -> refidx0
                  [] i = 3 -> refidx3
                  [] i = 4 -> BackwardEarliest(frame_offset)
                  [] i = 5 -> BackwardEarliest(
                                  Used(frame_offset, BackwardEarliest(frame_offset)))
                  [] i = 6 -> refidx6
                  [] OTHER -> -1],
            Used(Used(frame_offset, BackwardEarliest(frame_offset)),
                 BackwardEarliest(Used(frame_offset, BackwardEarliest(frame_offset)))),
            1)

\* the diffs of the eight slots with refidx[0] and refidx[3] marked used
DiffsOf(n_bits, refs, frame_offset, refidx0, refidx3) ==
    [j \in -1 .. 7 |->
        IF j = -1 THEN 0
        ELSE IF j = refidx0 \/ j = refidx3 THEN INT_MIN
        ELSE get_poc_diff(n_bits, refs[j].frame_offset, frame_offset)]

EarliestRefUnset(n_bits, refs, frame_offset) == -1

\* earliest_ref: the first slot with the smallest diff
EarliestRef(n_bits, refs, frame_offset) ==
    EarliestFrom([j \in 0 .. 7 |->
                     get_poc_diff(n_bits, refs[j].frame_offset, frame_offset)],
                 0, INT_MAX, -1)

\* frame_ref_short_signaling of parse_frame_hdr: refs[j] is
\* c->refs[j].p.p.frame_hdr, NULL where the slot is empty
ShortSignaling(n_bits, refs, frame_offset, refidx0, refidx3) ==
    IF \E j \in 0 .. 7 : refs[j] = NULL
    THEN [res |-> DAV1D_ERR(EINVAL)]
    ELSE [res |-> 0,
          earliest_ref |-> EarliestRef(n_bits, refs, frame_offset),
          refidx |->
              ShortRefidx45(
                  refidx0, refidx3,
                  BackwardLatest(DiffsOf(n_bits, refs, frame_offset,
                                         refidx0, refidx3)),
                  Used(DiffsOf(n_bits, refs, frame_offset, refidx0, refidx3),
                       BackwardLatest(DiffsOf(n_bits, refs, frame_offset,
                                              refidx0, refidx3))),
                  EarliestRef(n_bits, refs, frame_offset)),
          stores |->
              ShortStores(
                  refidx0, refidx3,
                  BackwardLatest(DiffsOf(n_bits, refs, frame_offset,
                                         refidx0, refidx3)),
                  Used(DiffsOf(n_bits, refs, frame_offset, refidx0, refidx3),
                       BackwardLatest(DiffsOf(n_bits, refs, frame_offset,
                                              refidx0, refidx3))))]

\* reference slots by the frame_offset of their frame headers
RefOffsets ==
    { [j \in 0 .. 7 |-> [frame_offset |-> 4 + j]],
      [j \in 0 .. 7 |-> [frame_offset |-> (2 * j + 3) % 16]],
      [j \in 0 .. 7 |-> [frame_offset |-> (13 + j) % 16]],
      [j \in 0 .. 7 |-> [frame_offset |-> 9]],
      [j \in 0 .. 7 |-> IF j = 5 THEN NULL ELSE [frame_offset |-> 4 + j]] }

ShortInputs ==
    { [fn |-> "short_signaling", n_bits |-> 4, refs |-> refs,
       frame_offset |-> frame_offset, refidx0 |-> refidx0, refidx3 |-> refidx3] :
          refs \in RefOffsets, frame_offset \in { 12, 6, 1 },
          refidx0 \in 0 .. 7, refidx3 \in 0 .. 7 }

ShortSignalingParsed ==
    /\ parse.pc = "called"
    /\ parse.in.fn = "short_signaling"
    /\ parse' = [pc |-> "returned", in |-> parse.in,
                 out |-> ShortSignaling(parse.in.n_bits, parse.in.refs,
                                        parse.in.frame_offset,
                                        parse.in.refidx0, parse.in.refidx3)]
    /\ UNCHANGED <<c, ret, call, hist, feed, scan>>

\* the example of the short-signaling derivation: slot i has frame_offset
\* 4 + i, the current frame_offset is 12, refidx[0] = 3 and refidx[3] = 4
ShortExample ==
    /\ parse.pc = "returned"
    /\ parse.in.fn = "short_signaling"
    /\ parse.in.refs = [j \in 0 .. 7 |-> [frame_offset |-> 4 + j]]
    /\ parse.in.frame_offset = 12
    /\ parse.in.refidx0 = 3
    /\ parse.in.refidx3 = 4

\* C24 as stated: on the example the derivation yields refidx[6] = 7,
\* refidx[4] = 1, refidx[5] = 2, refidx[1] = 6 and refidx[2] = 5, with
\* earliest_ref = slot 0.
C24_ShortSignalingExample ==
    ShortExample =>
        /\ parse.out.res = 0
        /\ parse.out.earliest_ref = 0
        /\ parse.out.refidx[6] = 7
        /\ parse.out.refidx[4] = 1
        /\ parse.out.refidx[5] = 2
        /\ parse.out.refidx[1] = 6
        /\ parse.out.refidx[2] = 5

\* C24, amended: every slot of the example lies before the current frame,
\* so no slot has a non-negative diff: the searches for refidx[6], refidx[4]
\* and refidx[5] find nothing and the positions 1, 2, 4, 5, 6 take the unused
\* slots from the latest on: refidx[1] = 7, refidx[2] = 6, refidx[4] = 5,
\* refidx[5] = 2 and refidx[6] = 1, with earliest_ref = slot 0.
C24_ShortSignalingForward ==
    ShortExample =>
        /\ parse.out.res = 0
        /\ parse.out.earliest_ref = 0
        /\ parse.out.refidx = [i \in 0 .. 6 |->
               CASE i = 0 -> 3 [] i = 1 -> 7 [] i = 2 -> 6 [] i = 3 -> 4
                 [] i = 4 -> 5 [] i = 5 -> 2 [] i = 6 -> 1]

\* the example has been derived
C24_Witness ==
    /\ ShortExample
    /\ parse.out.res = 0
    /\ parse.out.refidx[1] = 7
    /\ parse.out.refidx[6] = 1

DAV1D_PRIMARY_REF_NONE == 7

\* x >> s of a signed int: the arithmetic shift
Shr(x, s) == x \div Pow2(s)

\* the identity warp: no type, the matrix of the identity in 16.16 fixed point
dav1d_default_wm_params ==
    [type |-> "IDENTITY",
     matrix |-> [k \in 0 .. 5 |-> IF k \in { 2, 5 } THEN Pow2(16) ELSE 0]]

\* the recentring of decode_subexp: the code v counts the distance from r,
\* even codes above r and odd codes below, and codes beyond 2 * r are taken
\* as they are
inv_recenter(r, v) ==
    IF v > 2 * r THEN v
    ELSE IF v % 2 = 0 THEN (v \div 2) + r
    ELSE r - ((v + 1) \div 2)

\* the value in 0 .. n that the code v stands for next to the reference ref
get_bits_subexp_u(ref, n, v) ==
    IF ref * 2 <= n THEN inv_recenter(ref, v) ELSE n - inv_recenter(n - ref, v)

\* dav1d_get_bits_subexp(gb, ref, n), where v is the code that the reader
\* takes from the bits: the value in -(1 << n) .. (1 << n) predicted by ref
dav1d_get_bits_subexp(ref, n, v) ==
    get_bits_subexp_u(ref + Pow2(n), 2 * Pow2(n), v) - Pow2(n)

RefGmvDefault(primary_ref_frame, refidx, refs, i) == dav1d_default_wm_params

\* ref_gmv of the reference i, where the primary reference's slot is populated
RefGmv(primary_ref_frame, refidx, refs, i) ==
    IF primary_ref_frame = DAV1D_PRIMARY_REF_NONE
    THEN dav1d_default_wm_params
    ELSE refs[refidx[primary_ref_frame]].gmv[i]

\* bits and shift of mat[0] and mat[1]
GmvBits(type, hp) == IF type \in { "ROT_ZOOM", "AFFINE" } THEN 12 ELSE 9 - (1 - hp)

GmvShift(type, hp) == IF type \in { "ROT_ZOOM", "AFFINE" } THEN 10 ELSE 13 + (1 - hp)

\* mat[2] and mat[3], which only the types from ROT_ZOOM on read
GmvMat23(type, ref_mat, v, k) ==
    IF type \in { "ROT_ZOOM", "AFFINE" }
    THEN IF k = 2
         THEN Pow2(16) + 2 * dav1d_get_bits_subexp(Shr(ref_mat[2] - Pow2(16), 1), 12, v[2])
         ELSE 2 * dav1d_get_bits_subexp(Shr(ref_mat[3], 1), 12, v[3])
    ELSE dav1d_default_wm_params.matrix[k]

\* the matrix of a warp of a type other than IDENTITY, read as the codes v
\* next to the matrix ref_mat
GmvMatrix(type, hp, ref_mat, v) ==
    [k \in 0 .. 5 |->
        CASE k \in { 0, 1 } ->
                 dav1d_get_bits_subexp(Shr(ref_mat[k], GmvShift(type, hp)),
                                       GmvBits(type, hp), v[k])
                     * Pow2(GmvShift(type, hp))
          [] k \in { 2, 3 } -> GmvMat23(type, ref_mat, v, k)
          [] k = 4 ->
                 IF type = "AFFINE"
                 THEN 2 * dav1d_get_bits_subexp(Shr(ref_mat[4], 1), 12, v[4])
                 ELSE - GmvMat23(type, ref_mat, v, 3)
          [] k = 5 ->
                 IF type = "AFFINE"
                 THEN Pow2(16) + 2 * dav1d_get_bits_subexp(
                                         Shr(ref_mat[5] - Pow2(16), 1), 12, v[5])
                 ELSE GmvMat23(type, ref_mat, v, 2)]

\* whether the loop over the references leaves by goto error
GmvRefMissing(e) ==
    /\ e.inter
    /\ e.primary_ref_frame # DAV1D_PRIMARY_REF_NONE
    /\ \E i \in 0 .. 6 : e.gm[i].type # "IDENTITY"
    /\ e.refs[e.refidx[e.primary_ref_frame]] = NULL

\* the global motion parameters of parse_frame_hdr: e.inter is
\* IS_INTER_OR_SWITCH(hdr), e.gm[i] the type and the codes read for the
\* reference i, e.refs[j] is c->refs[j].p.p.frame_hdr
GlobalMotion(e) ==
    IF GmvRefMissing(e)
    THEN [res |-> DAV1D_ERR(EINVAL)]
    ELSE [res |-> 0,
          gmv |-> [i \in 0 .. 6 |->
              IF e.inter /\ e.gm[i].type # "IDENTITY"
              THEN [type |-> e.gm[i].type,
                    matrix |-> GmvMatrix(e.gm[i].type, e.hp,
                                   RefGmv(e.primary_ref_frame, e.refidx,
                                          e.refs, i).matrix,
                                   e.gm[i].v)]
              ELSE dav1d_default_wm_params]]

\* warps that reference frame headers hold
RefWarps ==
    { dav1d_default_wm_params,
      [type |-> "AFFINE",
       matrix |-> [k \in 0 .. 5 |->
           CASE k = 0 -> 3 * Pow2(14) [] k = 1 -> - Pow2(13) [] k = 2 -> Pow2(16) + 64
             [] k = 3 -> -128 [] k = 4 -> 96 [] k = 5 -> Pow2(16) - 32]] }

\* what is read for the seven references: a type and six codes each
GmReads ==
    { [i \in 0 .. 6 |-> [type |-> IF i \in on THEN type ELSE "IDENTITY",
                         v |-> [k \in 0 .. 5 |-> IF k = i % 6 THEN code ELSE 0]]] :
          on \in { {}, { 0 }, { 2, 6 } },
          type \in { "ROT_ZOOM", "TRANSLATION", "AFFINE" },
          code \in { 0, 1, 4 } }

\* a frame that is neither inter nor switch has no primary reference
GmInputs ==
    { in \in
      { [fn |-> "global_motion", inter |-> inter, hp |-> hp,
       primary_ref_frame |-> primary_ref_frame,
       refidx |-> [i \in 0 .. 6 |-> i],
       refs |-> [j \in 0 .. 7 |-> IF j = empty THEN NULL
                                  ELSE [gmv |-> [i \in 0 .. 6 |-> warp]]],
       gm |-> gm] :
          inter \in BOOLEAN, hp \in { 0, 1 },
          primary_ref_frame \in { 0, 2, DAV1D_PRIMARY_REF_NONE },
          empty \in { 2, 5 }, warp \in RefWarps, gm \in GmReads } :
      in.inter \/ in.primary_ref_frame = DAV1D_PRIMARY_REF_NONE }

GlobalMotionParsed ==
    /\ parse.pc = "called"
    /\ parse.in.fn = "global_motion"
    /\ parse' = [pc |-> "returned", in |-> parse.in,
                 out |-> GlobalMotion(parse.in)]
    /\ UNCHANGED <<c, ret, call, hist, feed, scan>>

\* C25 as stated: a frame header parsed with primary_ref_frame == NONE has
\* all seven gmv[i] equal to the identity warp parameters.
C25_NoPrimaryRefIdentity ==
    (/\ parse.pc = "returned"
     /\ parse.in.fn = "global_motion"
     /\ parse.out.res = 0
     /\ parse.in.primary_ref_frame = DAV1D_PRIMARY_REF_NONE) =>
        \A i \in 0 .. 6 : parse.out.gmv[i] = dav1d_default_wm_params

\* C25, amended: in a parsed frame header every gmv[i] of a type other than
\* identity has its coefficients decoded against the coefficients of the
\* identity warp parameters if primary_ref_frame == NONE, and against those
\* of gmv[i] of the frame header in the primary reference's slot otherwise;
\* every other gmv[i] equals the identity warp parameters, which are all
\* seven in a frame that is neither inter nor switch.
C25_GmvPredicted ==
    (parse.pc = "returned" /\ parse.in.fn = "global_motion" /\ parse.out.res = 0) =>
        \A i \in 0 .. 6 :
            IF parse.in.inter /\ parse.in.gm[i].type # "IDENTITY"
            THEN /\ parse.out.gmv[i].type = parse.in.gm[i].type
                 /\ parse.out.gmv[i].matrix =
                        GmvMatrix(parse.in.gm[i].type, parse.in.hp,
                            IF parse.in.primary_ref_frame = DAV1D_PRIMARY_REF_NONE
                            THEN dav1d_default_wm_params.matrix
                            ELSE parse.in.refs[parse.in.refidx[
                                     parse.in.primary_ref_frame]].gmv[i].matrix,
                            parse.in.gm[i].v)
            ELSE parse.out.gmv[i] = dav1d_default_wm_params

\* an inter frame whose primary reference is the slot 0 has read an affine
\* warp for the reference 2 next to the affine warp of that slot: the code 4
\* of mat[2] gives the slot's 65600 - 2 * 2, the code 0 of mat[3] the slot's
C25_Witness ==
    /\ parse.pc = "returned"
    /\ parse.in.fn = "global_motion"
    /\ parse.out.res = 0
    /\ parse.in.primary_ref_frame = 0
    /\ parse.in.refs[0].gmv[2].type = "AFFINE"
    /\ parse.in.gm[2].type = "AFFINE"
    /\ parse.in.gm[2].v[2] = 4
    /\ parse.out.gmv[2].matrix[2] = Pow2(16) + 64 - 4
    /\ parse.out.gmv[2].matrix[3] = -128
    /\ parse.out.gmv[0] = dav1d_default_wm_params

DAV1D_MAX_SEGMENTS == 8

\* a value clipped to 0 .. 255
iclip_u8(v) == IF v < 0 THEN 0 ELSE IF v > 255 THEN 255 ELSE v

\* a feature of a segment as it is read: the bit and, if it is set, the value
Feature(present, value) == [present |-> present, value |-> value]

\* the features of one segment, all absent
NoFeatures ==
    [delta_q |-> Feature(0, 0), delta_lf_y_v |-> Feature(0, 0),
     delta_lf_y_h |-> Feature(0, 0), delta_lf_u |-> Feature(0, 0),
     delta_lf_v |-> Feature(0, 0), ref |-> Feature(0, 0),
     skip |-> 0, globalmv |-> 0]

\* Dav1dSegmentationData of a segment read with update_data: a feature that
\* is absent keeps the zero of the cleared header, but for ref = -1
SegmentRead(r) ==
    [delta_q |-> IF r.delta_q.present = 1 THEN r.delta_q.value ELSE 0,
     delta_lf_y_v |-> IF r.delta_lf_y_v.present = 1 THEN r.delta_lf_y_v.value ELSE 0,
     delta_lf_y_h |-> IF r.delta_lf_y_h.present = 1 THEN r.delta_lf_y_h.value ELSE 0,
     delta_lf_u |-> IF r.delta_lf_u.present = 1 THEN r.delta_lf_u.value ELSE 0,
     delta_lf_v |-> IF r.delta_lf_v.present = 1 THEN r.delta_lf_v.value ELSE 0,
     ref |-> IF r.ref.present = 1 THEN r.ref.value ELSE -1,
     skip |-> r.skip,
     globalmv |-> r.globalmv]

\* whether the segment sets preskip, and whether it sets last_active_segid
SetsPreskip(r) == r.ref.present = 1 \/ r.skip = 1 \/ r.globalmv = 1

SetsActive(r) ==
    \/ SetsPreskip(r)
    \/ r.delta_q.present = 1
    \/ r.delta_lf_y_v.present = 1
    \/ r.delta_lf_y_h.present = 1
    \/ r.delta_lf_u.present = 1
    \/ r.delta_lf_v.present = 1

\* seg_data as the loop over the segments reads it
SegDataRead(seg) ==
    [d |-> [i \in 0 .. DAV1D_MAX_SEGMENTS - 1 |-> SegmentRead(seg[i])],
     last_active_segid |->
         IF \E i \in 0 .. DAV1D_MAX_SEGMENTS - 1 : SetsActive(seg[i])
         THEN CHOOSE i \in 0 .. DAV1D_MAX_SEGMENTS - 1 :
                  /\ SetsActive(seg[i])
                  /\ \A k \in i + 1 .. DAV1D_MAX_SEGMENTS - 1 : ~ SetsActive(seg[k])
         ELSE -1,
     preskip |->
         IF \E i \in 0 .. DAV1D_MAX_SEGMENTS - 1 : SetsPreskip(seg[i])
         THEN 1 ELSE 0]

\* seg_data of a header without segmentation: the cleared header with ref = -1
SegDataDisabled ==
    [d |-> [i \in 0 .. DAV1D_MAX_SEGMENTS - 1 |-> SegmentRead(NoFeatures)],
     last_active_segid |-> 0,
     preskip |-> 0]

SegDataReset(refs, pri_ref) == SegDataDisabled

\* seg_data = c->refs[pri_ref].p.p.frame_hdr->segmentation.seg_data
SegDataCopied(refs, pri_ref) == refs[pri_ref].seg_data

\* update_data of the header: set without a primary reference, read otherwise
UpdateData(e) ==
    IF e.enabled = 0 THEN 0
    ELSE IF e.primary_ref_frame = DAV1D_PRIMARY_REF_NONE THEN 1
    ELSE e.update_data

\* qidx[i] of a segment whose delta_q is given
Qidx(yac, enabled, delta_q) ==
    IF enabled = 1 THEN iclip_u8(yac + delta_q) ELSE yac

DeltaLosslessLuma(quant) == quant.ydc_delta = 0

\* delta_lossless: none of the five deltas is set
DeltaLossless(quant) ==
    /\ quant.ydc_delta = 0
    /\ quant.udc_delta = 0
    /\ quant.uac_delta = 0
    /\ quant.vdc_delta = 0
    /\ quant.vac_delta = 0

\* the lossless flags: qidx[i] and, of lossless[i], their conjunction
\* all_lossless
Lossless(quant, enabled, seg_data) ==
    [qidx |-> [i \in 0 .. DAV1D_MAX_SEGMENTS - 1 |->
                  Qidx(quant.yac, enabled, seg_data.d[i].delta_q)],
     all_lossless |->
         IF \A i \in 0 .. DAV1D_MAX_SEGMENTS - 1 :
                /\ Qidx(quant.yac, enabled, seg_data.d[i].delta_q) = 0
                /\ DeltaLossless(quant)
         THEN 1 ELSE 0]

\* the header after the segmentation data and the lossless flags
SegHeader(e, seg_data) ==
    [res |-> 0,
     enabled |-> e.enabled,
     update_map |-> IF e.enabled = 0 THEN 0
                    ELSE IF e.primary_ref_frame = DAV1D_PRIMARY_REF_NONE THEN 1
                    ELSE e.update_map,
     update_data |-> UpdateData(e),
     seg_data |-> seg_data,
     qidx |-> Lossless(e.quant, e.enabled, seg_data).qidx,
     all_lossless |-> Lossless(e.quant, e.enabled, seg_data).all_lossless]

\* the segmentation data and the lossless flags of parse_frame_hdr: e.seg[i]
\* are the features read for the segment i, e.refs[j] is
\* c->refs[j].p.p.frame_hdr, e.quant the quantizer parameters read before
Segmentation(e) ==
    IF e.enabled = 0 THEN SegHeader(e, SegDataDisabled)
    ELSE IF UpdateData(e) = 1 THEN SegHeader(e, SegDataRead(e.seg))
    ELSE IF e.refs[e.refidx[e.primary_ref_frame]] = NULL THEN [res |-> DAV1D_ERR(EINVAL)]
    ELSE SegHeader(e, SegDataCopied(e.refs, e.refidx[e.primary_ref_frame]))

\* the features read for the eight segments
SegReads ==
    { [i \in 0 .. 7 |-> NoFeatures],
      [i \in 0 .. 7 |-> IF i = 1 THEN [NoFeatures EXCEPT !.delta_q = Feature(1, 5)]
                        ELSE NoFeatures],
      [i \in 0 .. 7 |->
          CASE i = 2 -> [NoFeatures EXCEPT !.delta_q = Feature(1, -3)]
            [] i = 5 -> [NoFeatures EXCEPT !.ref = Feature(1, 2),
                                           !.delta_lf_u = Feature(1, -7)]
            [] OTHER -> NoFeatures],
      [i \in 0 .. 7 |-> IF i = 7 THEN [NoFeatures EXCEPT !.skip = 1]
                        ELSE NoFeatures] }

\* the quantizer parameters: base index and the five deltas
Quants ==
    { [yac |-> yac, ydc_delta |-> d[1], udc_delta |-> d[2], uac_delta |-> d[3],
       vdc_delta |-> d[4], vac_delta |-> d[5]] :
          yac \in { 0, 2, 255 },
          d \in { << 0, 0, 0, 0, 0 >>, << 1, 0, 0, 0, 0 >>, << 0, 0, -2, 0, 0 >>,
                  << 0, 0, 0, 0, 3 >>, << 0, -1, 0, 4, 0 >> } }

SegInputs ==
    { [fn |-> "segmentation", enabled |-> enabled,
       primary_ref_frame |-> primary_ref_frame,
       refidx |-> [i \in 0 .. 6 |-> 6 - i],
       refs |-> [j \in 0 .. 7 |-> IF j = 4 THEN NULL
                                  ELSE [seg_data |-> SegDataRead(held)]],
       update_map |-> update_data, update_data |-> update_data,
       seg |-> seg, quant |-> quant] :
          enabled \in { 0, 1 },
          primary_ref_frame \in { 0, 2, DAV1D_PRIMARY_REF_NONE },
          held \in SegReads, update_data \in { 0, 1 }, seg \in SegReads,
          quant \in Quants }

SegmentationParsed ==
    /\ parse.pc = "called"
    /\ parse.in.fn = "segmentation"
    /\ parse' = [pc |-> "returned", in |-> parse.in,
                 out |-> Segmentation(parse.in)]
    /\ UNCHANGED <<c, ret, call, hist, feed, scan>>

\* C26: a frame header parsed with segmentation whose update_data is read as
\* false carries the segmentation data (the features of every segment,
\* last_active_segid, preskip) of the frame header in the primary
\* reference's slot, and it is refused if that slot is empty.
C26_SegmentationInherited ==
    (parse.pc = "returned" /\ parse.in.fn = "segmentation") =>
        /\ (/\ parse.out.res = 0
            /\ parse.out.enabled = 1
            /\ parse.out.update_data = 0) =>
                parse.out.seg_data =
                    parse.in.refs[parse.in.refidx[
                        parse.in.primary_ref_frame]].seg_data
        /\ (/\ parse.in.enabled = 1
            /\ parse.in.primary_ref_frame # DAV1D_PRIMARY_REF_NONE
            /\ parse.in.update_data = 0
            /\ parse.in.refs[parse.in.refidx[parse.in.primary_ref_frame]] = NULL) =>
                parse.out.res = DAV1D_ERR(EINVAL)

\* a header whose update_data is read as false has the data of the slot 6,
\* the primary reference 0, whose segment 1 has delta_q = 5, while the
\* features in its own bits are those of another segment
C26_Witness ==
    /\ parse.pc = "returned"
    /\ parse.in.fn = "segmentation"
    /\ parse.out.res = 0
    /\ parse.out.enabled = 1
    /\ parse.out.update_data = 0
    /\ parse.in.primary_ref_frame = 0
    /\ parse.in.seg[7].skip = 1
    /\ parse.out.seg_data = parse.in.refs[6].seg_data
    /\ parse.out.seg_data.d[1].delta_q = 5
    /\ parse.out.seg_data.last_active_segid = 1
    /\ parse.out.seg_data.preskip = 0

\* C27 as stated: a parsed frame header with yac = 0 and the deltas ydc, udc,
\* uac, vdc, vac all zero has all_lossless true, and one with any of those
\* deltas non-zero has all_lossless false.
C27_LosslessByDeltas ==
    (parse.pc = "returned" /\ parse.in.fn = "segmentation" /\ parse.out.res = 0) =>
        /\ (parse.in.quant.yac = 0 /\ DeltaLossless(parse.in.quant)) =>
               parse.out.all_lossless = 1
        /\ ~ DeltaLossless(parse.in.quant) => parse.out.all_lossless = 0

\* C27, amended: a parsed frame header with yac = 0, the deltas ydc, udc, uac,
\* vdc, vac all zero and, where segmentation is enabled, no segment with a
\* delta_q above zero has all_lossless true, and one with any of those
\* deltas non-zero has all_lossless false.
C27_LosslessBySegments ==
    (parse.pc = "returned" /\ parse.in.fn = "segmentation" /\ parse.out.res = 0) =>
        /\ (/\ parse.in.quant.yac = 0
            /\ parse.in.quant.ydc_delta = 0
            /\ parse.in.quant.udc_delta = 0
            /\ parse.in.quant.uac_delta = 0
            /\ parse.in.quant.vdc_delta = 0
            /\ parse.in.quant.vac_delta = 0
            /\ \/ parse.out.enabled = 0
               \/ \A i \in 0 .. DAV1D_MAX_SEGMENTS - 1 :
                      parse.out.seg_data.d[i].delta_q <= 0) =>
               parse.out.all_lossless = 1
        /\ (\/ parse.in.quant.ydc_delta # 0
            \/ parse.in.quant.udc_delta # 0
            \/ parse.in.quant.uac_delta # 0
            \/ parse.in.quant.vdc_delta # 0
            \/ parse.in.quant.vac_delta # 0) =>
               parse.out.all_lossless = 0

\* a header with yac = 0, no delta and segmentation whose segment 2 has
\* delta_q = -3 is lossless in every segment
C27_Witness ==
    /\ parse.pc = "returned"
    /\ parse.in.fn = "segmentation"
    /\ parse.out.res = 0
    /\ parse.in.quant.yac = 0
    /\ DeltaLossless(parse.in.quant)
    /\ parse.out.enabled = 1
    /\ parse.out.seg_data.d[2].delta_q = -3
    /\ parse.out.all_lossless = 1

\* the scaling points of a plane as they are read: their number and the
\* x coordinates of the first num of them
Points(num, step) == [num |-> num, x |-> [i \in 1 .. num |-> step * i]]

\* whether no point is at or left of the point before it
Increasing(p) == \A i \in 2 .. p.num : p.x[i - 1] < p.x[i]

\* whether the header reads no scaling points for the chroma planes
NoUvPoints(e) ==
    \/ e.monochrome = 1
    \/ e.chroma_scaling_from_luma = 1
    \/ (e.ss_ver = 1 /\ e.ss_hor = 1 /\ e.y.num = 0)

UvUnchecked(ss_hor, ss_ver, num_uv_points) == FALSE

\* ss_hor == 1 && ss_ver == 1 && !!num_uv_points[0] != !!num_uv_points[1]
UvAsymmetric(ss_hor, ss_ver, num_uv_points) ==
    /\ ss_hor = 1
    /\ ss_ver = 1
    /\ (num_uv_points[0] # 0) # (num_uv_points[1] # 0)

\* num_uv_points of the header
NumUvPoints(e) == [pl \in 0 .. 1 |-> IF NoUvPoints(e) THEN 0 ELSE e.uv[pl].num]

\* the scaling points of the film grain data of a header with
\* film_grain.update: e.y and e.uv[pl] are the points in the bits, and
\* e.chroma_scaling_from_luma is the bit read unless the sequence is
\* monochrome
FilmGrainPoints(e) ==
    IF \/ e.y.num > 14
       \/ ~ Increasing(e.y)
       \/ /\ ~ NoUvPoints(e)
          /\ \E pl \in 0 .. 1 : e.uv[pl].num > 10 \/ ~ Increasing(e.uv[pl])
       \/ UvAsymmetric(e.ss_hor, e.ss_ver, NumUvPoints(e))
    THEN [res |-> DAV1D_ERR(EINVAL)]
    ELSE [res |-> 0,
          num_y_points |-> e.y.num,
          chroma_scaling_from_luma |-> e.chroma_scaling_from_luma,
          num_uv_points |-> NumUvPoints(e)]

\* a sequence is monochrome only with ss_hor = ss_ver = 1, and then no
\* chroma_scaling_from_luma is read
FilmGrainInputs ==
    { in \in
      { [fn |-> "film_grain", monochrome |-> monochrome,
         ss_hor |-> ss[1], ss_ver |-> ss[2],
         chroma_scaling_from_luma |-> chroma_scaling_from_luma,
         y |-> Points(y[1], y[2]),
         uv |-> [pl \in 0 .. 1 |-> IF pl = 0 THEN Points(cb[1], cb[2])
                                   ELSE Points(cr[1], cr[2])]] :
            monochrome \in { 0, 1 },
            ss \in { << 1, 1 >>, << 1, 0 >>, << 0, 0 >> },
            chroma_scaling_from_luma \in { 0, 1 },
            y \in { << 0, 10 >>, << 1, 10 >>, << 3, 10 >>, << 3, 0 >>,
                    << 14, 10 >>, << 15, 10 >> },
            cb \in { << 0, 10 >>, << 1, 10 >>, << 3, 10 >>, << 2, 0 >>, << 11, 10 >> },
            cr \in { << 0, 10 >>, << 1, 10 >>, << 3, 10 >>, << 2, 0 >>, << 11, 10 >> } } :
      in.monochrome = 1 =>
          (in.ss_hor = 1 /\ in.ss_ver = 1 /\ in.chroma_scaling_from_luma = 0) }

FilmGrainParsed ==
    /\ parse.pc = "called"
    /\ parse.in.fn = "film_grain"
    /\ parse' = [pc |-> "returned", in |-> parse.in,
                 out |-> FilmGrainPoints(parse.in)]
    /\ UNCHANGED <<c, ret, call, hist, feed, scan>>

\* C28 as stated: no 4:2:0 frame header with film-grain update is parsed
\* whose luma has at least one scaling point while chroma has none, or whose
\* chroma has scaling points while luma has none.
C28_LumaChromaSymmetry ==
    (/\ parse.pc = "returned"
     /\ parse.in.fn = "film_grain"
     /\ parse.in.ss_hor = 1
     /\ parse.in.ss_ver = 1
     /\ parse.out.res = 0) =>
        /\ ~ (/\ parse.out.num_y_points >= 1
              /\ parse.out.num_uv_points[0] = 0
              /\ parse.out.num_uv_points[1] = 0)
        /\ ~ (/\ parse.out.num_y_points = 0
              /\ (parse.out.num_uv_points[0] > 0 \/ parse.out.num_uv_points[1] > 0))

\* C28, amended: a 4:2:0 frame header with film-grain update whose Cb plane
\* has at least one scaling point while the Cr plane has none, or whose Cr
\* plane has scaling points while the Cb plane has none, fails to parse
\* with EINVAL, so no parsed one has such points.
C28_ChromaSymmetry ==
    (/\ parse.pc = "returned"
     /\ parse.in.fn = "film_grain"
     /\ parse.in.ss_hor = 1
     /\ parse.in.ss_ver = 1) =>
        /\ (/\ parse.in.monochrome = 0
            /\ parse.in.chroma_scaling_from_luma = 0
            /\ parse.in.y.num > 0
            /\ (parse.in.uv[0].num = 0) # (parse.in.uv[1].num = 0)) =>
               parse.out.res = DAV1D_ERR(EINVAL)
        /\ parse.out.res = 0 =>
               (parse.out.num_uv_points[0] = 0 <=> parse.out.num_uv_points[1] = 0)

\* a 4:2:0 header with three luma points, three Cb points and no Cr point,
\* all in order, has been refused
C28_Witness ==
    /\ parse.pc = "returned"
    /\ parse.in.fn = "film_grain"
    /\ parse.in.ss_hor = 1
    /\ parse.in.ss_ver = 1
    /\ parse.in.monochrome = 0
    /\ parse.in.chroma_scaling_from_luma = 0
    /\ parse.in.y = Points(3, 10)
    /\ parse.in.uv[0] = Points(3, 10)
    /\ parse.in.uv[1] = Points(0, 10)
    /\ parse.out.res = DAV1D_ERR(EINVAL)

DAV1D_MAX_TILE_COLS == 64

DAV1D_MAX_TILE_ROWS == 64

imin(a, b) == IF a < b THEN a ELSE b

imax(a, b) == IF a > b THEN a ELSE b

\* for (k = 0; (sz << k) < tgt; k++) ;
RECURSIVE TileLog2From(_, _, _)
TileLog2From(sz, tgt, k) ==
    IF sz * Pow2(k) < tgt THEN TileLog2From(sz, tgt, k + 1) ELSE k

tile_log2(sz, tgt) == TileLog2From(sz, tgt, 0)

\* the size of a tile of at most tile_size_sb superblocks: 1 + uniform(
\* tile_size_sb), where the value read is r taken below tile_size_sb
TileSize(tile_size_sb, r) ==
    IF tile_size_sb > 1 THEN 1 + (r % tile_size_sb) ELSE 1

ExplicitGoesOnUncapped(sb, size, n, max_tiles) == sb < size

\* sbx < sbw && hdr->tiling.cols < DAV1D_MAX_TILE_COLS, and so for the rows
ExplicitGoesOn(sb, size, n, max_tiles) == sb < size /\ n < max_tiles

\* a loop of the explicit mode from the superblock sb on: the starts of the
\* tiles read and the superblock at which the loop stops
RECURSIVE ExplicitTiles(_, _, _, _, _, _)
ExplicitTiles(sb, size, max_tile_sb, max_tiles, r, start_sb) ==
    IF ExplicitGoesOn(sb, size, Len(start_sb), max_tiles)
    THEN ExplicitTiles(sb + TileSize(imin(size - sb, max_tile_sb), r),
                       size, max_tile_sb, max_tiles, r, Append(start_sb, sb))
    ELSE [n |-> Len(start_sb), start_sb |-> start_sb, sb |-> sb]

\* widest_tile of the columns t
WidestTile(t) ==
    CHOOSE w \in 0 .. t.sb :
        /\ \A i \in 1 .. t.n :
               (IF i = t.n THEN t.sb ELSE t.start_sb[i + 1]) - t.start_sb[i] <= w
        /\ \/ t.n = 0 /\ w = 0
           \/ \E i \in 1 .. t.n :
                  (IF i = t.n THEN t.sb ELSE t.start_sb[i + 1]) - t.start_sb[i] = w

max_tile_width_sb(e) == Shr(4096, 6 + e.sb128)

min_log2_tiles(e) ==
    imax(tile_log2(Shr(4096 * 2304, 2 * (6 + e.sb128)), e.sbw * e.sbh),
         tile_log2(max_tile_width_sb(e), e.sbw))

\* the columns of the explicit mode
ExplicitCols(e) ==
    ExplicitTiles(0, e.sbw, max_tile_width_sb(e), DAV1D_MAX_TILE_COLS,
                  e.col_read, << >>)

\* max_tile_height_sb: the area left for a tile over the widest tile
max_tile_height_sb(e) ==
    imax((IF min_log2_tiles(e) # 0
          THEN Shr(e.sbw * e.sbh, min_log2_tiles(e) + 1)
          ELSE e.sbw * e.sbh) \div WidestTile(ExplicitCols(e)), 1)

\* the rows of the explicit mode
ExplicitRows(e) ==
    ExplicitTiles(0, e.sbh, max_tile_height_sb(e), DAV1D_MAX_TILE_ROWS,
                  e.row_read, << >>)

\* tiling.update as read in log2_cols + log2_rows bits
TilingUpdate(e, log2_cols, log2_rows) ==
    IF log2_cols + log2_rows > 0 THEN e.update % Pow2(log2_cols + log2_rows)
    ELSE 0

\* the tiling of a header after the loops over the columns cols and the
\* rows rows: col_start_sb and row_start_sb are closed by sbw and sbh, and
\* sbx and sby are where the loops stopped
TilingOf(e, cols, rows) ==
    [res |-> IF TilingUpdate(e, tile_log2(1, cols.n), tile_log2(1, rows.n))
                    >= cols.n * rows.n
             THEN DAV1D_ERR(EINVAL) ELSE 0,
     cols |-> cols.n,
     rows |-> rows.n,
     log2_cols |-> tile_log2(1, cols.n),
     log2_rows |-> tile_log2(1, rows.n),
     col_start_sb |-> Append(cols.start_sb, e.sbw),
     row_start_sb |-> Append(rows.start_sb, e.sbh),
     sbx |-> cols.sb,
     sby |-> rows.sb,
     update |-> TilingUpdate(e, tile_log2(1, cols.n), tile_log2(1, rows.n))]

\* the tile data of parse_frame_hdr with tiling.uniform = 0, for a frame of
\* e.sbw by e.sbh superblocks
ExplicitTiling(e) == TilingOf(e, ExplicitCols(e), ExplicitRows(e))

TilingInputs ==
    { [fn |-> "tiling", sb128 |-> sb128, sbw |-> sbw, sbh |-> sbh,
       col_read |-> col_read, row_read |-> row_read, update |-> update] :
          sb128 \in { 0, 1 }, sbw \in { 1, 5, 64, 65, 70 },
          sbh \in { 1, 3, 64, 66 }, col_read \in { 0, 1, 7 },
          row_read \in { 0, 2 }, update \in { 0, 3, 4095 } }

ExplicitTilingParsed ==
    /\ parse.pc = "called"
    /\ parse.in.fn = "tiling"
    /\ parse' = [pc |-> "returned", in |-> parse.in,
                 out |-> ExplicitTiling(parse.in)]
    /\ UNCHANGED <<c, ret, call, hist, feed, scan>>

\* C30 as stated: in explicit tile mode a frame header whose tile sizes
\* would need more than 64 tile columns or more than 64 tile rows is
\* rejected with an error.
C30_TooManyTilesRejected ==
    (/\ parse.pc = "returned"
     /\ parse.in.fn = "tiling"
     /\ (parse.out.sbx < parse.in.sbw \/ parse.out.sby < parse.in.sbh)) =>
        parse.out.res # 0

\* C30, amended: in explicit tile mode a frame header never has more than 64
\* tile columns or more than 64 tile rows: where the tile sizes read would
\* need more, reading stops after 64 of them, the last one reaches to the
\* edge of the frame, and the header is not rejected for it (it is rejected
\* only for a tiling.update that is not below cols * rows).
C30_TilesCapped ==
    (parse.pc = "returned" /\ parse.in.fn = "tiling") =>
        /\ parse.out.cols <= DAV1D_MAX_TILE_COLS
        /\ parse.out.rows <= DAV1D_MAX_TILE_ROWS
        /\ parse.out.sbx < parse.in.sbw =>
              /\ parse.out.cols = DAV1D_MAX_TILE_COLS
              /\ parse.out.col_start_sb[DAV1D_MAX_TILE_COLS + 1] = parse.in.sbw
        /\ parse.out.sby < parse.in.sbh =>
              /\ parse.out.rows = DAV1D_MAX_TILE_ROWS
              /\ parse.out.row_start_sb[DAV1D_MAX_TILE_ROWS + 1] = parse.in.sbh
        /\ parse.out.res # 0 <=>
              parse.out.update >= parse.out.cols * parse.out.rows

\* a frame of 70 by 66 superblocks whose tiles are read as one superblock
\* each has been parsed with 64 columns and 64 rows
C30_Witness ==
    /\ parse.pc = "returned"
    /\ parse.in.fn = "tiling"
    /\ parse.in.sbw = 70
    /\ parse.in.sbh = 66
    /\ parse.out.res = 0
    /\ parse.out.sbx = 64
    /\ parse.out.sby = 64
    /\ parse.out.cols = 64
    /\ parse.out.rows = 64
    /\ parse.out.col_start_sb[64] = 63
    /\ parse.out.col_start_sb[65] = 70

\* the order-hint difference of the slot j to the current frame of a
\* short-signaling derivation that has returned
ShortDiff(j) ==
    get_poc_diff(parse.in.n_bits, parse.in.refs[j].frame_offset,
                 parse.in.frame_offset)

\* the slots that refidx[0] and refidx[3] do not name
ShortUnused == (0 .. 7) \ { parse.in.refidx0, parse.in.refidx3 }

\* the slot j is later than the slot k: the loops with >= take the last of
\* the slots with the largest difference
ShortLater(j, k) ==
    ShortDiff(j) > ShortDiff(k) \/ (ShortDiff(j) = ShortDiff(k) /\ j > k)

\* C31 as stated: a slot whose order-hint difference to the current frame is
\* negative is never chosen for refidx[6], even when no slot has a
\* non-negative difference.
C31_Refidx6NeverNegative ==
    (/\ parse.pc = "returned"
     /\ parse.in.fn = "short_signaling"
     /\ parse.out.res = 0) =>
        ShortDiff(parse.out.refidx[6]) >= 0

\* C31, amended: a slot whose difference is negative is never chosen for
\* refidx[6] while an unused slot has a non-negative difference: refidx[6]
\* is then the latest of those. When no unused slot has a non-negative
\* difference the search leaves refidx[6] open and the last loop fills it
\* after the positions 1, 2, 4 and 5, with the fifth latest of the unused
\* slots, which has a negative difference.
C31_Refidx6Backward ==
    (/\ parse.pc = "returned"
     /\ parse.in.fn = "short_signaling"
     /\ parse.out.res = 0) =>
        IF \E j \in ShortUnused : ShortDiff(j) >= 0
        THEN /\ parse.out.refidx[6] \in ShortUnused
             /\ ShortDiff(parse.out.refidx[6]) >= 0
             /\ \A j \in ShortUnused \ { parse.out.refidx[6] } :
                    ShortLater(parse.out.refidx[6], j)
        ELSE /\ parse.out.refidx[6] \in ShortUnused
             /\ ShortDiff(parse.out.refidx[6]) < 0
             /\ Cardinality({ j \in ShortUnused :
                                ShortLater(j, parse.out.refidx[6]) }) = 4

\* every slot lies before the current frame, refidx[0] and refidx[3] both
\* name the slot 0, and refidx[6] has taken the slot 3, the fifth from the
\* latest slot 7 down
C31_Witness ==
    /\ parse.pc = "returned"
    /\ parse.in.fn = "short_signaling"
    /\ parse.out.res = 0
    /\ parse.in.refs = [j \in 0 .. 7 |-> [frame_offset |-> 4 + j]]
    /\ parse.in.frame_offset = 12
    /\ parse.in.refidx0 = 0
    /\ parse.in.refidx3 = 0
    /\ parse.out.refidx[6] = 3
    /\ ShortDiff(3) = -5

\* the positions that the derivation fills, the others being read
ShortDerived == { 1, 2, 4, 5, 6 }

\* C32: the derivation fails the frame header exactly if one of the eight
\* slots is unpopulated; after it every refidx[0 .. 6] is a slot index in
\* 0 .. 7, each derived position holds an unused slot that no other derived
\* position holds or else earliest_ref, and every store into the offset
\* table is at an index in 0 .. 7 or at -1, the dump element.
C32_RefidxValid ==
    (parse.pc = "returned" /\ parse.in.fn = "short_signaling") =>
        /\ parse.out.res = DAV1D_ERR(EINVAL) <=>
               \E j \in 0 .. 7 : parse.in.refs[j] = NULL
        /\ parse.out.res = 0 =>
               /\ \A i \in 0 .. 6 : parse.out.refidx[i] \in 0 .. 7
               /\ parse.out.earliest_ref \in 0 .. 7
               /\ \A j \in 0 .. 7 : ShortDiff(parse.out.earliest_ref) <= ShortDiff(j)
               /\ \A i \in ShortDerived :
                      \/ parse.out.refidx[i] = parse.out.earliest_ref
                      \/ /\ parse.out.refidx[i] \in ShortUnused
                         /\ \A k \in ShortDerived \ { i } :
                                parse.out.refidx[k] # parse.out.refidx[i]
               /\ parse.out.stores \subseteq -1 .. 7

\* every slot lies after the current frame: refidx[6], refidx[4] and
\* refidx[5] take three of them, the positions 1 and 2 find no slot before
\* the frame and fall back to earliest_ref, and the failed searches have
\* stored at -1
C32_Witness ==
    /\ parse.pc = "returned"
    /\ parse.in.fn = "short_signaling"
    /\ parse.out.res = 0
    /\ \A j \in 0 .. 7 : ShortDiff(j) = 3
    /\ parse.in.refidx0 = 1
    /\ parse.in.refidx3 = 2
    /\ parse.out.earliest_ref = 0
    /\ parse.out.refidx[6] = 7
    /\ parse.out.refidx[4] = 0
    /\ parse.out.refidx[5] = 3
    /\ parse.out.refidx[1] = 0
    /\ parse.out.refidx[2] = 0
    /\ -1 \in parse.out.stores

\* for (log2 = min_log2; log2 < max_log2 && dav1d_get_bit(gb); log2++) ;
\* where the bits to come start with ones bits that are set
RECURSIVE UniformLog2(_, _, _)
UniformLog2(log2, max_log2, ones) ==
    IF log2 < max_log2 /\ ones > 0
    THEN UniformLog2(log2 + 1, max_log2, ones - 1)
    ELSE log2

\* for (sb = 0; sb < size; sb += tile_sz, n++) start_sb[n] = sb;
RECURSIVE UniformTiles(_, _, _, _)
UniformTiles(sb, size, tile_sz, start_sb) ==
    IF sb < size
    THEN UniformTiles(sb + tile_sz, size, tile_sz, Append(start_sb, sb))
    ELSE [n |-> Len(start_sb), start_sb |-> start_sb, sb |-> sb]

\* tiling.log2_cols of the uniform mode
UniformLog2Cols(e) ==
    UniformLog2(tile_log2(max_tile_width_sb(e), e.sbw),
                tile_log2(1, imin(e.sbw, DAV1D_MAX_TILE_COLS)), e.col_ones)

\* tiling.log2_rows of the uniform mode, from min_log2_rows on
UniformLog2Rows(e) ==
    UniformLog2(imax(min_log2_tiles(e) - UniformLog2Cols(e), 0),
                tile_log2(1, imin(e.sbh, DAV1D_MAX_TILE_ROWS)), e.row_ones)

\* the tile data of parse_frame_hdr with tiling.uniform = 1, for a frame of
\* e.sbw by e.sbh superblocks: tiles of 1 + ((sb - 1) >> log2) superblocks
UniformTilingOf(e, cols, rows) ==
    [res |-> IF TilingUpdate(e, UniformLog2Cols(e), UniformLog2Rows(e))
                    >= cols.n * rows.n
             THEN DAV1D_ERR(EINVAL) ELSE 0,
     cols |-> cols.n,
     rows |-> rows.n,
     log2_cols |-> UniformLog2Cols(e),
     log2_rows |-> UniformLog2Rows(e),
     col_start_sb |-> Append(cols.start_sb, e.sbw),
     row_start_sb |-> Append(rows.start_sb, e.sbh),
     sbx |-> cols.sb,
     sby |-> rows.sb,
     update |-> TilingUpdate(e, UniformLog2Cols(e), UniformLog2Rows(e))]

UniformTiling(e) ==
    UniformTilingOf(e,
        UniformTiles(0, e.sbw, 1 + Shr(e.sbw - 1, UniformLog2Cols(e)), << >>),
        UniformTiles(0, e.sbh, 1 + Shr(e.sbh - 1, UniformLog2Rows(e)), << >>))

\* frames of at most 65536 by 65536 pixels, in superblocks of 64 << sb128
UniformInputs ==
    { in \in { [fn |-> "uniform_tiling", sb128 |-> sb128, sbw |-> sbw,
                sbh |-> sbh, col_ones |-> col_ones, row_ones |-> row_ones,
                update |-> update] :
                   sb128 \in { 0, 1 }, sbw \in { 1, 3, 64, 65, 100, 512, 1024 },
                   sbh \in { 1, 5, 64, 67, 512, 1024 },
                   col_ones \in { 0, 1, 3, 6 }, row_ones \in { 0, 2, 6 },
                   update \in { 0, 3, 14, 4095 } } :
          /\ in.sbw <= Shr(1024, in.sb128)
          /\ in.sbh <= Shr(1024, in.sb128) }

UniformTilingParsed ==
    /\ parse.pc = "called"
    /\ parse.in.fn = "uniform_tiling"
    /\ parse' = [pc |-> "returned", in |-> parse.in,
                 out |-> UniformTiling(parse.in)]
    /\ UNCHANGED <<c, ret, call, hist, feed, scan>>

InitHdr == InitParse(ShortInputs \cup GmInputs \cup SegInputs \cup FilmGrainInputs \cup TilingInputs \cup UniformInputs)

NextHdr ==
    \/ ShortSignalingParsed
    \/ GlobalMotionParsed
    \/ SegmentationParsed
    \/ FilmGrainParsed
    \/ ExplicitTilingParsed
    \/ UniformTilingParsed

SpecHdr == InitHdr /\ [][NextHdr]_vars

\* the tile-grid step has returned, in either mode
TileGridDone ==
    parse.pc = "returned" /\ parse.in.fn \in { "tiling", "uniform_tiling" }

\* start_sb opens at 0, increases strictly over n tiles and closes at size
TileStarts(start_sb, n, size) ==
    /\ Len(start_sb) = n + 1
    /\ start_sb[1] = 0
    /\ start_sb[n + 1] = size
    /\ \A i \in 1 .. n : start_sb[i] < start_sb[i + 1]

\* C33: after the tile-grid step, in uniform or explicit mode, there are 1 to
\* 64 tile columns and 1 to 64 tile rows, col_start_sb and row_start_sb start
\* at 0 and increase strictly up to the sentinels sbw and sbh, cols <=
\* 2^log2_cols and rows <= 2^log2_rows, and the header is rejected exactly
\* when a context-update tile id is read and is cols * rows or more.
C33_TileGrid ==
    TileGridDone =>
        /\ parse.out.cols \in 1 .. 64
        /\ parse.out.rows \in 1 .. 64
        /\ TileStarts(parse.out.col_start_sb, parse.out.cols, parse.in.sbw)
        /\ TileStarts(parse.out.row_start_sb, parse.out.rows, parse.in.sbh)
        /\ parse.out.cols <= Pow2(parse.out.log2_cols)
        /\ parse.out.rows <= Pow2(parse.out.log2_rows)
        /\ parse.out.res \in { 0, DAV1D_ERR(EINVAL) }
        /\ parse.out.res = DAV1D_ERR(EINVAL) <=>
               /\ parse.out.log2_cols + parse.out.log2_rows > 0
               /\ parse.in.update
                      % Pow2(parse.out.log2_cols + parse.out.log2_rows)
                      >= parse.out.cols * parse.out.rows

\* a frame of 1024 by 1024 superblocks in uniform mode with 64 by 64 tiles,
\* and the last tile as the context-update tile
C33_Witness ==
    /\ TileGridDone
    /\ parse.in.fn = "uniform_tiling"
    /\ parse.in.sbw = 1024 /\ parse.in.sbh = 1024
    /\ parse.out.cols = 64 /\ parse.out.rows = 64
    /\ parse.out.log2_cols = 6 /\ parse.out.log2_rows = 6
    /\ parse.out.col_start_sb[64] = 1008
    /\ parse.out.update = 4095
    /\ parse.out.res = 0

\* explicit mode over 65 superblocks of one tile each: the 64 tiles stop at
\* superblock 64 and the sentinel closes the last one at 65
C33_WitnessExplicit ==
    /\ TileGridDone
    /\ parse.in.fn = "tiling"
    /\ parse.in.sbw = 65
    /\ parse.out.cols = 64
    /\ parse.out.sbx = 64
    /\ parse.out.col_start_sb[65] = 65

----------------------------------------------------------------------------
(* The show_existing_frame emission with several frame contexts, step by
   step: c->task_thread.lock, the wait for the worker of the ring slot, the
   harvest of the slot and the attachment of the picture *)

\* what the emission reads and writes of the ring when it harvests the slot
\* `next`: the output holder, the consumer cursors when the slot holds an
\* output or an error, the cached error when the worker has failed
HarvestTouches(cc, next) ==
    { "out_delayed" }
        \cup (IF cc.frame_thread.out_delayed[next].p.data # 0 \/
                 cc.fc[next].error # 0
              THEN { "first", "reset_task_cur", "cur" } ELSE {})
        \cup (IF cc.fc[next].retval # 0 THEN { "cached_error" } ELSE {})

PendingTilesNever(f) == FALSE

PendingTilesForever(f) == TRUE

\* while (f->n_tile_data > 0)
PendingTiles(f) == f.n_tile_data > 0

\* the position of the emission in the call c0: at pc, with the local
\* variable next, having touched the objects in touch at its last step
EmitAt(c0, pc, next, touch) ==
    [c0 EXCEPT !.pc = pc, !.next = next, !.touch = touch]

\* dav1d_parse_obus(c, in) up to the hand-off: a show_existing_frame to emit
\* stops in front of pthread_mutex_lock(), every other call goes on to its
\* end (the worker of a frame that is submitted takes the lock it waits for)
ParseObusLocked(in) ==
    /\ call = NoCall
    /\ c.task_thread.lock = "free"
    /\ IF Run(c, in).handoff = "emit"
       THEN /\ hist.n_attach < MaxAttach
            /\ c' = Run(c, in).c
            /\ call' = [ kind |-> "emit", pc |-> "lock", next |-> -1,
                         m |-> in.m, val |-> Run(c, in).val,
                         ev |-> Run(c, in).ev, touch |-> {} ]
            /\ UNCHANGED <<ret, hist>>
       ELSE Handoff(Run(c, in), in)

\* pthread_mutex_lock(&c->task_thread.lock)
EmitLock ==
    /\ call.kind = "emit" /\ call.pc = "lock"
    /\ c.task_thread.lock = "free"
    /\ c' = [c EXCEPT !.task_thread.lock = "parser"]
    /\ call' = EmitAt(call, "next", -1, {})
    /\ UNCHANGED <<ret, hist, feed, scan, parse>>

\* const unsigned next = c->frame_thread.next++, wrapping at n_fc
EmitNext ==
    /\ call.kind = "emit" /\ call.pc = "next"
    /\ c' = [c EXCEPT !.frame_thread.next = NextCursor(@, c.n_fc)]
    /\ call' = EmitAt(call, "while", c.frame_thread.next, {})
    /\ UNCHANGED <<ret, hist, feed, scan, parse>>

\* while (f->n_tile_data > 0) pthread_cond_wait(&f->task_thread.cond, lock):
\* the wait releases the lock
EmitWait ==
    /\ call.kind = "emit" /\ call.pc = "while"
    /\ IF PendingTiles(c.fc[call.next])
       THEN /\ c' = [c EXCEPT !.task_thread.lock = "free"]
            /\ call' = EmitAt(call, "wait", call.next, {})
       ELSE /\ c' = c
            /\ call' = EmitAt(call, "harvest", call.next, {})
    /\ UNCHANGED <<ret, hist, feed, scan, parse>>

\* pthread_cond_wait() returns with the lock: the worker of the slot has
\* signalled the condition, which it does when it has no pending tiles
EmitWake ==
    /\ call.kind = "emit" /\ call.pc = "wait"
    /\ c.fc[call.next].n_tile_data = 0
    /\ c.task_thread.lock = "free"
    /\ c' = [c EXCEPT !.task_thread.lock = "parser"]
    /\ call' = EmitAt(call, "while", call.next, {})
    /\ UNCHANGED <<ret, hist, feed, scan, parse>>

\* pthread_cond_wait() returns with the lock and without a signal
EmitSpurious ==
    /\ call.kind = "emit" /\ call.pc = "wait"
    /\ c.fc[call.next].n_tile_data > 0
    /\ c.task_thread.lock = "free"
    /\ c' = [c EXCEPT !.task_thread.lock = "parser"]
    /\ call' = EmitAt(call, "while", call.next, {})
    /\ UNCHANGED <<ret, hist, feed, scan, parse>>

\* out_delayed of the slot: the cursors, the error, the delayed output
EmitHarvest ==
    /\ call.kind = "emit" /\ call.pc = "harvest"
    /\ c' = Harvest(c, call.next)
    /\ call' = EmitAt(call, "attach", call.next, HarvestTouches(c, call.next))
    /\ UNCHANGED <<ret, hist, feed, scan, parse>>

\* dav1d_thread_picture_ref(out_delayed, ...), visible = 1, the properties,
\* and the T.35 list leaves the context
EmitAttach ==
    /\ call.kind = "emit" /\ call.pc = "attach"
    /\ c' = [Attach(c, call.next,
                    Holder(c.refs[c.frame_hdr.existing_frame_idx].p, 1, c,
                           call.m, hist.n_attach + 1))
                 EXCEPT !.itut_t35 = << >>]
    /\ call' = EmitAt(call, "unlock", call.next, { "out_delayed" })
    /\ UNCHANGED <<ret, hist, feed, scan, parse>>

\* pthread_mutex_unlock(&c->task_thread.lock)
EmitUnlock ==
    /\ call.kind = "emit" /\ call.pc = "unlock"
    /\ c' = [c EXCEPT !.task_thread.lock = "free"]
    /\ call' = EmitAt(call, "key", call.next, {})
    /\ UNCHANGED <<ret, hist, feed, scan, parse>>

\* the fan-out of a key frame, c->frame_hdr = NULL, and the call returns
EmitReturn ==
    /\ call.kind = "emit" /\ call.pc = "key"
    /\ Finish([val |-> call.val, ev |-> call.ev], call.m,
              [(IF c.refs[c.frame_hdr.existing_frame_idx].p.p.frame_hdr.frame_type
                       = "KEY"
                THEN FanOut(c, c.frame_hdr.existing_frame_idx) ELSE c)
                   EXCEPT !.frame_hdr = NULL])
    /\ hist' = Attached(hist, ret'.out)
    /\ call' = NoCall
    /\ UNCHANGED <<feed, scan, parse>>

\* the steps of the emission
Emit ==
    \/ EmitLock
    \/ EmitNext
    \/ EmitWait
    \/ EmitWake
    \/ EmitSpurious
    \/ EmitHarvest
    \/ EmitAttach
    \/ EmitUnlock
    \/ EmitReturn

\* the worker of ring slot i ends its frame, holding the lock
WorkerLocked(i) ==
    /\ c.task_thread.lock = "free"
    /\ \/ WorkerDone(i)
       \/ WorkerFail(i)

NextLock ==
    \/ (\E in \in InputsMT : ParseObusLocked(in)) /\ UNCHANGED <<feed, scan, parse>>
    \/ call.kind = "submit" /\ Resume /\ UNCHANGED <<feed, scan, parse>>
    \/ (\E i \in 0 .. (c.n_fc - 1) : WorkerLocked(i)) /\ UNCHANGED <<feed, scan, parse>>
    \/ EmitLock
    \/ EmitNext
    \/ EmitWait
    \/ EmitWake
    \/ EmitSpurious
    \/ EmitHarvest
    \/ EmitAttach
    \/ EmitUnlock
    \/ EmitReturn

SpecLock == InitMT /\ [][NextLock]_vars

\* the thread of the caller runs on, and takes the lock when it is free
SpecLockFair == SpecLock /\ WF_vars(Emit)

\* the emission is under way
Emitting == call.kind = "emit"

\* the objects of the ring that the lock protects
Protected == { "out_delayed", "first", "reset_task_cur", "cur", "cached_error" }

\* C34, the states: the emission touches the output holder of its ring
\* slot, the consumer cursors and the cached error only with the lock held
\* and with no pending tiles in the slot, the cursor next stays in
\* 0 .. n_fc - 1, and the lock is free whenever no emission is under way, so
\* when dav1d_parse_obus has returned.
C34_Held ==
    /\ c.frame_thread.next \in 0 .. (c.n_fc - 1)
    /\ ~Emitting => c.task_thread.lock = "free"
    /\ Emitting =>
          /\ call.touch \subseteq Protected
          /\ call.touch # {} =>
                /\ c.task_thread.lock = "parser"
                /\ call.pc \in { "attach", "unlock" }
                /\ c.fc[call.next].n_tile_data = 0
          /\ call.pc \in { "key" } => c.task_thread.lock = "free"

\* C34, the steps: a step of the emission that changes the output holders,
\* the cursors or the cached error is taken with the lock held, before and
\* after, and with no pending tiles in the slot; the emission moves the
\* cursor next once, by one, wrapping at n_fc, with the lock held, and its
\* slot is the one the cursor named.
C34_Step ==
    Emitting =>
        /\ ( \/ c'.frame_thread.out_delayed # c.frame_thread.out_delayed
             \/ c'.task_thread.first # c.task_thread.first
             \/ c'.task_thread.cur # c.task_thread.cur
             \/ c'.task_thread.reset_task_cur # c.task_thread.reset_task_cur
             \/ c'.cached_error # c.cached_error ) =>
               \/ /\ c.task_thread.lock = "parser"
                  /\ c'.task_thread.lock = "parser"
                  /\ c.fc[call.next].n_tile_data = 0
                  /\ call'.touch # {}
               \/ /\ c.task_thread.lock = "free"
                  /\ call' = call
        /\ IF call.pc = "next"
           THEN /\ c.task_thread.lock = "parser"
                /\ c'.frame_thread.next = (c.frame_thread.next + 1) % c.n_fc
                /\ call'.next = c.frame_thread.next
           ELSE c'.frame_thread.next = c.frame_thread.next

C34_MutexDiscipline == [] C34_Held /\ [][C34_Step]_vars

\* an emission has taken ring slot 0 after two frames, has found the delayed
\* output of the slot, has attached its picture and holds the lock
C34_Witness ==
    /\ Emitting
    /\ call.pc = "unlock"
    /\ c.task_thread.lock = "parser"
    /\ call.next = 0
    /\ c.frame_thread.next = 1
    /\ c.frame_thread.out_delayed[0].stamp = hist.n_attach + 1
    /\ c.out.p.data # 0
    /\ c.task_thread.first = 1

\* the emission is blocked in pthread_cond_wait() on its ring slot
Blocked == Emitting /\ call.pc = "wait"

\* the worker of the slot of the emission has no pending tiles
Drained ==
    /\ Emitting
    /\ call.next \in 0 .. (c.n_fc - 1)
    /\ c.fc[call.next].n_tile_data = 0

\* the call has returned with the lock free and with the picture of its
\* show_existing_frame in the holder of a ring slot
Emitted ==
    /\ call = NoCall
    /\ c.task_thread.lock = "free"
    /\ "emit" \in ret.ev
    /\ \E i \in 0 .. (c.n_fc - 1) :
           /\ c.frame_thread.out_delayed[i].stamp = hist.n_attach
           /\ c.frame_thread.out_delayed[i].visible = 1
           /\ c.frame_thread.out_delayed[i].p.data # 0

\* the emission is past its wait only with no pending tiles in its slot
DrainedFirst ==
    (Emitting /\ call.pc \in { "harvest", "attach", "unlock", "key" }) =>
        c.fc[call.next].n_tile_data = 0

\* C35: an emission that is blocked on its ring slot, whose worker
\* eventually has no pending tiles, eventually has attached its picture to
\* the slot, released the lock and returned; and it never gets past its
\* wait while the worker of the slot has pending tiles.
C35_HandoffLive ==
    /\ [](Blocked => ([]~Drained \/ <>Emitted))
    /\ []DrainedFirst

\* the emission is blocked on ring slot 0, whose worker decodes the key frame
C35_Witness ==
    /\ Blocked
    /\ call.next = 0
    /\ c.fc[0].n_tile_data > 0
    /\ c.task_thread.lock = "free"
    /\ c.frame_hdr.show_existing_frame = 1

----------------------------------------------------------------------------
(* Calls that follow an error: temporal delimiters and padding among the
   inputs of the demultiplexer *)

\* well-formed OBU_TD and OBU_PADDING
Following ==
    { Obu(DAV1D_OBU_TD, 0, 7, NoPayload),
      Obu(DAV1D_OBU_PADDING, 1, 8, NoPayload) }

\* an OBU_FRAME whose frame header is parsed past the end of the OBU: the
\* only SWITCH frame among the inputs
FrameOverrun ==
    Obu(DAV1D_OBU_FRAME, 1, 9,
        [NoPayload EXCEPT !.fh = HdrSwitch, !.fh_overrun = TRUE])

\* a sequence header, a key frame as OBU_FRAME and as OBU_FRAME_HDR, the
\* show_existing_frame of slots 0 and 1, the tile groups of the pending
\* frame header, a frame header that does not parse, an OBU longer than
\* the buffer, the OBUs of Following and FrameOverrun
ErrInputs(cc) ==
    { Obu(DAV1D_OBU_SEQ_HDR, 1, 1, [NoPayload EXCEPT !.seq = SeqA]),
      Obu(DAV1D_OBU_FRAME, 1, 1, [NoPayload EXCEPT !.fh = HdrKey]),
      Obu(DAV1D_OBU_FRAME_HDR, 1, 1, [NoPayload EXCEPT !.fh = HdrKey]) }
        \cup { ShowExistingIn(r) : r \in ExistingIdx }
        \cup { Obu(DAV1D_OBU_TILE_GRP, 1, 1, pl) : pl \in TilePayloads(cc.frame_hdr) }
        \cup { Obu(DAV1D_OBU_FRAME_HDR, 1, 1, NoPayload),
               ObuTooLong(DAV1D_OBU_TD, 1, NoPayload) }
        \cup Following \cup { FrameOverrun }

NextErr ==
    (\E in \in ErrInputs(c) : ParseObus(in))
        /\ UNCHANGED <<feed, scan, parse>>

SpecErr == Init /\ [][NextErr]_vars

\* C36 as stated: after a call that has returned EINVAL, the call on a
\* well-formed TD or PADDING OBU returns the byte count of the OBU.
C36_FollowingStep ==
    ret.val = DAV1D_ERR(EINVAL) =>
        \A in \in Following : ParseObus(in) => ret'.val = in.sz

C36_ErrorDoesNotPoison == [][C36_FollowingStep]_vars

\* the frame header hdr is the one that FrameOverrun left
Overran(hdr) == hdr # NULL /\ hdr.frame_type = "SWITCH"

\* C37 as stated: the frame header of a FRAME OBU whose parse overran the
\* OBU is never handed to dav1d_submit_frame with the tile groups of later
\* TILE_GRP OBUs.
C37_OverrunNeverSubmitted ==
    ~("submit" \in ret.ev /\ Overran(ret.out.p.frame_hdr))

----------------------------------------------------------------------------
(* show_existing_frame under every decode_frame_type, strict or not *)

SettingsShow ==
    { Settings(strict, t, 0, 0, 1) :
        strict \in BOOLEAN,
        t \in DAV1D_DECODEFRAMETYPE_ALL .. DAV1D_DECODEFRAMETYPE_KEY }

InitShow == InitWith(SettingsShow)

\* a sequence header, a key frame for every slot, an inter frame for slot
\* 0, an intra frame for slot 1, each with all its tiles, and the
\* show_existing_frame of slots 0 and 1
ShowInputs ==
    { Obu(DAV1D_OBU_SEQ_HDR, 1, 1, [NoPayload EXCEPT !.seq = SeqA]) }
        \cup { Obu(DAV1D_OBU_FRAME, 1, 1, [NoPayload EXCEPT !.fh = f]) :
                   f \in { HdrKey, HdrInter, HdrIntra } }
        \cup { ShowExistingIn(r) : r \in ExistingIdx }
        \cup { Obu(DAV1D_OBU_METADATA, 1, 1,
                   [NoPayload EXCEPT !.meta = Cll(1, GoodTb)]) }

NextShow ==
    (\E in \in ShowInputs : ParseObus(in))
        /\ UNCHANGED <<feed, scan, parse>>

SpecShow == InitShow /\ [][NextShow]_vars

\* the call on a show_existing_frame of slot r is turned down: it is dropped
\* by the decode_frame_type filter or fails with EINVAL, nothing is put in
\* c->out and the slots are as before
TurnedDown ==
    /\ \/ ret'.val = DAV1D_ERR(EINVAL)
       \/ "skip" \in ret'.ev /\ ret'.val > 0
    /\ ret'.out = ZeroOut
    /\ c'.out = ZeroOut
    /\ c'.refs = c.refs

\* C38: a show_existing_frame of a slot without pixel data, empty or filled
\* with headers by the skip path, is dropped by the decode_frame_type filter
\* or fails with EINVAL, puts nothing in the output and fans out no slot; in
\* strict mode a slot that holds a picture which is not showable, such as a
\* KEY frame already shown by a show_existing_frame, fails with EINVAL in
\* the same way; and no call puts a picture without pixel data in the
\* output.
C38_ShowStep ==
    /\ ret'.out # ZeroOut => ret'.out.p.data # 0
    /\ \A r \in ExistingIdx :
           ParseObus(ShowExistingIn(r)) =>
               /\ c.refs[r].p.p.data = 0 => TurnedDown
               /\ ( /\ c.strict_std_compliance
                    /\ c.refs[r].p.p.data # 0
                    /\ c.refs[r].p.showable = 0 ) =>
                      TurnedDown /\ ret'.val = DAV1D_ERR(EINVAL)

C38_ShowsPixelsOnly == [][C38_ShowStep]_vars

\* in strict mode the key frame of slot 0 has been shown once and the second
\* show_existing_frame of it has failed
C38_Witness ==
    /\ c.strict_std_compliance
    /\ ret.val = DAV1D_ERR(EINVAL)
    /\ c.frame_hdr # NULL
    /\ c.frame_hdr.show_existing_frame = 1
    /\ c.frame_hdr.existing_frame_idx = 0
    /\ c.refs[0].p.p.data # 0
    /\ c.refs[0].p.p.frame_hdr.frame_type = "KEY"
    /\ c.refs[0].p.showable = 0
    /\ ret.out = ZeroOut

\* slot 0 holds the headers of an inter frame that the filter has skipped,
\* and the show_existing_frame of it has been dropped
C38_WitnessSkipped ==
    /\ c.refs[0].p.p.frame_hdr # NULL
    /\ c.refs[0].p.p.data = 0
    /\ "skip" \in ret.ev
    /\ "frame_hdr" \in ret.ev
    /\ c.frame_hdr = NULL
    /\ c.n_tiles = 0
    /\ ret.out = ZeroOut

----------------------------------------------------------------------------
(* A frame header that arrives while a frame is incomplete *)

\* tile groups of a frame whose header is pending are recorded
Incomplete == c.frame_hdr # NULL /\ Len(c.tile) > 0

\* the frame header and frame OBUs among the inputs whose header parses,
\* and the one whose header parse_frame_hdr refuses
HeaderIns ==
    { Obu(DAV1D_OBU_FRAME_HDR, 1, 1, pl) :
          pl \in { q \in FrameHdrPayloads : q.fh # NULL } }
        \cup { Obu(DAV1D_OBU_FRAME, 1, 1, pl) : pl \in FramePayloads }

RefusedIns == { Obu(DAV1D_OBU_FRAME_HDR, 1, 1, NoPayload) }

\* the context without the tile groups of the incomplete frame
Cleared == [c EXCEPT !.tile = << >>, !.n_tiles = 0]

\* the call hands the new frame on: it is submitted, skipped or shown
HandsOn == ret'.ev \cap { "submit", "skip", "emit" } # {}

\* C39: a FRAME_HDR or FRAME OBU whose header parses while tile groups of an
\* incomplete frame are recorded discards those tile groups (the records
\* and the tile count that remain are those of the new frame alone) and
\* replaces the pending frame header; the discard is no error (the call
\* returns what it returns on a context without those tile groups, the byte
\* count of the OBU when it leaves the new header pending) and no reference
\* slot is updated unless the new frame itself is handed on.  When
\* parse_frame_hdr refuses the new header the call fails, the tile groups
\* recorded stay and no frame header is pending.
C39_HeaderStep ==
    Incomplete =>
        /\ \A in \in HeaderIns :
               ParseObus(in) =>
                   /\ c' = Call(Cleared, in)
                   /\ ret'.val = Run(Cleared, in).val
                   /\ Len(c'.tile) <= 1
                   /\ c'.frame_hdr # NULL =>
                          /\ c'.frame_hdr = in.pl.fh
                          /\ ( ret'.val = in.sz \/
                               ret'.val = DAV1D_ERR(EINVAL) )
                          /\ c'.n_tiles <= c'.frame_hdr.tiling.cols
                                               * c'.frame_hdr.tiling.rows
                   /\ ( in.pl.tb = GoodTb /\ ~in.pl.fh_overrun /\
                        in.pl.fh.show_existing_frame = 0 /\
                        in.data[1] = HdrByte(DAV1D_OBU_FRAME_HDR, 0, 1) ) =>
                          /\ ret'.val = in.sz
                          /\ c'.frame_hdr = in.pl.fh
                          /\ c'.tile = << >>
                          /\ c'.n_tiles = 0
                   /\ ~HandsOn => c'.refs = c.refs
        /\ \A in \in RefusedIns :
               ParseObus(in) =>
                   /\ ret'.val = DAV1D_ERR(EINVAL)
                   /\ c'.tile = c.tile
                   /\ c'.n_tiles = c.n_tiles
                   /\ c'.frame_hdr = NULL
                   /\ c'.refs = c.refs

C39_HeaderDiscardsTiles == [][C39_HeaderStep]_vars

\* the first tile of the inter frame was recorded and the call on a frame
\* header OBU that parse_frame_hdr refuses has failed: the tile group is
\* still recorded and no frame header is pending
C39_Witness ==
    /\ c.frame_hdr = NULL
    /\ Len(c.tile) = 1
    /\ c.n_tiles = 1
    /\ ret.val = DAV1D_ERR(EINVAL)
    /\ ret.ev = { "frame_hdr" }

\* a frame header OBU with the header of a key frame is pending, no tile
\* group is recorded and no slot holds a picture
C39_WitnessReplaced ==
    /\ c.frame_hdr # NULL
    /\ c.frame_hdr.frame_type = "KEY"
    /\ c.tile = << >>
    /\ c.n_tiles = 0
    /\ ret.val = 3
    /\ ret.ev = { "frame_hdr" }
    /\ \A i \in Slots : c.refs[i].p.p.data = 0

====
